---- MODULE Spec2Model ----
(***************************************************************************)
(* Model of the ping-routine scheduler of fathom-vault                      *)
(* (src/services/ping_scheduler.py): the routine map, its lock, the         *)
(* threading.Timer objects it arms and the _run threads that fire.          *)
(***************************************************************************)
EXTENDS Integers, Sequences, FiniteSets, Bags, TLC

\* ------------------------------------------------------------------ bounds
MaxTime == 1     \* the clock runs from 0 to MaxTime (unit: one minute)
MaxOps == 1      \* calls into the public methods after start-up, all routines in play
MaxOpsOne == 2   \* the same, with one routine in play
MaxRuns == 2     \* _run threads alive at the same time
MaxCalls == 3    \* calls into the session manager
MaxPanes == 2    \* panes tmux makes
MaxOut == 3      \* lines a job's process prints
MaxScripts == 2  \* script sources of a routine
MaxText == 4     \* tokens of the agent's text
MaxIndexCalls == 3  \* calls of the indexer's configure and run_now
MaxTimers == 4   \* timers the indexer starts

\* ------------------------------------------------------------ input domains
Ids == {"default", "x:default"}
NoWs == ""                      \* workspace argument None (or empty: both falsy)
NoId == ""                      \* routine_id argument None
None == -1                      \* a datetime field that is None
NoTimer == 0                    \* rs.timer is None
DeadTimer == -1                 \* rs.timer is a Timer whose wait is over
RawIntervals == {0, 2}          \* interval_minutes as supplied by a caller
DefaultWorkspace == "fathom"    \* r.get("workspace", "fathom")

VARIABLES
    routines,   \* PingScheduler._routines: insertion-ordered dict, as a sequence of RoutineState
    timers,     \* the threading.Timer objects still waiting: [tid, id, workspace, deadline,
                \* stale], stale marking a timer armed before the last configure_all
    lock,       \* PingScheduler._lock: 0 when free, 1 when held by the _run thread building its prompt
    runs,       \* the _run threads, a bag of [pc, id, workspace, ws, src, ok, stale, late]:
                \* stale marks the thread of a timer armed before the last configure_all,
                \* late the thread of a timer whose routine was disabled after its wait ended
    now,        \* datetime.now(UTC)
    ops,        \* calls made so far into the public methods
    lastOp,     \* the step just taken and what it returned (observation only)
    sessions,   \* the tmux sessions by workspace: the id of the session's pane, 0 when there is none
    next_pane,  \* the pane id tmux gives to the next pane it makes
    pane_file,  \* the <workspace>-pane-id files: the pane id written, 0 when there is no
                \* file, EmptyFile when the file is there without content
    session_lock,  \* persistent_session._lock: 0 when free, 1 when held
    calls,      \* the session manager calls in progress, a bag of Call records
    ncalls,     \* calls entered so far
    ret,        \* the call that returned in the last step and what it returned, NoCall
                \* when none did (observation only)
    jobs,       \* crystallization._JOBS with each job's process and reader thread
    got,        \* the get_events call of the last step and what it returned, NoGot when
                \* the step was no such call (observation only)
    stream,     \* the generator of crystal_stream: its job id, cursor, fetched batch and
                \* the messages it has yielded
    built,      \* the last _build_prompt call: the context sources, whether the override
                \* file ping-prompt.md was there, and the parts joined into the prompt
    scan,       \* a _reader fed the agent's text in chunks: the text, what is still to
                \* come, text_buf, and the progress events appended
    extracted,  \* a call of _extract_crystal: the text and what it returned
    indexer,    \* the BackgroundIndexer: its fields, its waiting timers, its _run threads
    saved,      \* the routines saved in the settings file of the default workspace
    http,       \* the request thread of update_routine
    booking     \* the settings a _run thread has loaded and not yet saved

\* the scheduler's variables, the session manager's, the job runner's, the prompt builder's
pvars == <<routines, timers, lock, runs, now, ops, lastOp>>
svars == <<sessions, next_pane, pane_file, session_lock, calls, ncalls, ret>>
jvars == <<jobs, got, stream>>
bvars == <<built, scan, extracted>>
ivars == <<indexer>>
dvars == <<saved, http, booking>>
vars == <<pvars, svars, jvars, bvars, ivars, dvars>>

Max(a, b) == IF a >= b THEN a ELSE b

\* ------------------------------------------------------------- the dict
composite_key(workspace, routine_id) == workspace \o ":" \o routine_id

KeyOf(rs) == composite_key(rs.workspace, rs.id)

\* dict lookup: the position of `key` in the insertion order, 0 when missing
IndexOf(rts, key) ==
    IF \E i \in 1..Len(rts) : KeyOf(rts[i]) = key
    THEN CHOOSE i \in 1..Len(rts) : KeyOf(rts[i]) = key
    ELSE 0

\* dict assignment d[key] = rs: in place when the key exists, appended otherwise
Put(rts, rs) ==
    LET i == IndexOf(rts, KeyOf(rs)) IN
    IF i = 0 THEN Append(rts, rs) ELSE [rts EXCEPT ![i] = rs]

\* del d[key]
Del(rts, i) == [j \in 1..(Len(rts) - 1) |-> IF j < i THEN rts[j] ELSE rts[j + 1]]

find(rts, routine_id, workspace) ==
    IF workspace # NoWs
    THEN IndexOf(rts, composite_key(workspace, routine_id))
    ELSE IF \E i \in 1..Len(rts) : rts[i].id = routine_id
         THEN CHOOSE i \in 1..Len(rts) :
                  /\ rts[i].id = routine_id
                  /\ \A j \in 1..(i - 1) : rts[j].id # routine_id
         ELSE 0

RoutineState(id, enabled, interval_minutes, workspace) ==
    [id |-> id, enabled |-> enabled, interval_minutes |-> interval_minutes,
     workspace |-> workspace, next_ping_at |-> None, last_ping_at |-> None,
     timer |-> NoTimer]

\* ------------------------------------------------------------- timers
\* Timer.cancel(): a waiting timer never calls its function; a timer whose wait is
\* over (no longer in the set) is not affected
Cancel(tms, tref) == {t \in tms : t.tid # tref}

FreeTid(tms) ==
    CHOOSE n \in 1..(Cardinality(tms) + 1) :
        /\ \A t \in tms : t.tid # n
        /\ \A m \in 1..(n - 1) : \E t \in tms : t.tid = m

\* _schedule(rs, seconds): st is [rs, tms], the routine being worked on and the timers
schedule(st, delay) ==
    LET tms0 == Cancel(st.tms, st.rs.timer)
        tid == FreeTid(tms0)
    IN [rs |-> [st.rs EXCEPT !.timer = tid],
        tms |-> tms0 \cup {[tid |-> tid, id |-> st.rs.id, workspace |-> st.rs.workspace,
                            deadline |-> now + delay, stale |-> FALSE]}]

reschedule(st) ==
    schedule([st EXCEPT !.rs.next_ping_at = now + st.rs.interval_minutes],
             st.rs.interval_minutes)

\* ------------------------------------------------------- observation
NoRoutine ==
    [id |-> NoId, enabled |-> FALSE, interval_minutes |-> 0, workspace |-> NoWs,
     next_ping_at |-> None, last_ping_at |-> None, timer |-> NoTimer]
NoKw == [has_enabled |-> FALSE, enabled |-> FALSE, has_interval |-> FALSE, interval_minutes |-> 0]

\* op: the step; id, ws: its arguments; kw: configure's keyword arguments; found: whether
\* the step found its routine; pre: that routine before the step; src: who started the
\* _run thread; ok: what its inject returned; outcome: how the persistence ended
Op(op, id, ws, kw, found, pre, src, ok, outcome) ==
    [op |-> op, id |-> id, ws |-> ws, kw |-> kw, found |-> found, pre |-> pre,
     src |-> src, ok |-> ok, outcome |-> outcome]

At(rts, i) == IF i = 0 THEN NoRoutine ELSE rts[i]

\* ------------------------------------------------------------ inputs
Kwargs ==
    [has_enabled : BOOLEAN, enabled : BOOLEAN, has_interval : BOOLEAN,
     interval_minutes : RawIntervals]

\* an absent keyword has no value: one representative per absent field
KwInputs ==
    {kw \in Kwargs : /\ (~kw.has_enabled => ~kw.enabled)
                     /\ (~kw.has_interval => kw.interval_minutes = 0)}

\* the (workspace, id) pairs the callers use; absent workspace stands for "fathom"
Targets == {<<NoWs, "default">>, <<"fathom:x", "default">>, <<NoWs, "x:default">>}
TargetsOne == {<<NoWs, "default">>}

\* the arguments of a lookup: a pair with its workspace spelled out, or an id alone
LookupsOf(targets) ==
    {<<IF p[1] = NoWs THEN DefaultWorkspace ELSE p[1], p[2]>> : p \in targets}
        \cup {<<NoWs, p[2]>> : p \in targets}

\* dicts handed to add_routine ("workspace" may be missing)
AddDictsOf(targets) ==
    {d \in [id : Ids, workspace : {NoWs, "fathom:x"}, enabled : BOOLEAN,
            interval_minutes : RawIntervals] : <<d.workspace, d.id>> \in targets}

\* dicts handed to configure_all, as read from the workspaces' settings files
LoadDicts ==
    { [id |-> "default", workspace |-> NoWs, enabled |-> TRUE, interval_minutes |-> 2,
       next_ping_at |-> 1, last_ping_at |-> None],
      [id |-> "default", workspace |-> "fathom:x", enabled |-> TRUE, interval_minutes |-> 0,
       next_ping_at |-> 1, last_ping_at |-> 0],
      [id |-> "x:default", workspace |-> NoWs, enabled |-> TRUE, interval_minutes |-> 2,
       next_ping_at |-> None, last_ping_at |-> None],
      [id |-> "default", workspace |-> NoWs, enabled |-> FALSE, interval_minutes |-> 2,
       next_ping_at |-> 1, last_ping_at |-> 0],
      [id |-> "default", workspace |-> NoWs, enabled |-> TRUE, interval_minutes |-> 0,
       next_ping_at |-> 0, last_ping_at |-> 0] }

\* the lists app.py collects: at most one dict per (workspace, id)
LoadListsOf(targets) ==
    LET ds == {d \in LoadDicts : <<d.workspace, d.id>> \in targets}
    IN {<<>>} \cup {<<a>> : a \in ds}
           \cup {l \in {<<a, b>> : a, b \in ds} :
                     <<l[1].workspace, l[1].id>> # <<l[2].workspace, l[2].id>>}

\* ------------------------------------------------------- configure_all
\* the loop body with `if remaining > 0` left out of line 78: an overdue routine is
\* scheduled with the time it has left, none
LoadOneOverdue(st, r) ==
    LET rs0 == RoutineState(r.id, r.enabled, Max(1, r.interval_minutes),
                            IF r.workspace = NoWs THEN DefaultWorkspace ELSE r.workspace)
        rs1 == IF r.last_ping_at # None
               THEN [rs0 EXCEPT !.last_ping_at = r.last_ping_at] ELSE rs0
        remaining == r.next_ping_at - now
        s0 == [rs |-> rs1, tms |-> st.tms]
        s1 == IF rs1.enabled
              THEN IF r.next_ping_at # None
                   THEN schedule([s0 EXCEPT !.rs.next_ping_at = r.next_ping_at], remaining)
                   ELSE reschedule(s0)
              ELSE s0
    IN [rts |-> Put(st.rts, s1.rs), tms |-> s1.tms]

\* the loop body of configure_all for one dict r; st is [rts, tms]
LoadOne(st, r) ==
    LET rs0 == RoutineState(r.id, r.enabled, Max(1, r.interval_minutes),
                            IF r.workspace = NoWs THEN DefaultWorkspace ELSE r.workspace)
        rs1 == IF r.last_ping_at # None
               THEN [rs0 EXCEPT !.last_ping_at = r.last_ping_at] ELSE rs0
        remaining == r.next_ping_at - now
        s0 == [rs |-> rs1, tms |-> st.tms]
        s1 == IF rs1.enabled
              THEN IF r.next_ping_at # None
                   THEN IF remaining > 0
                        THEN schedule([s0 EXCEPT !.rs.next_ping_at = r.next_ping_at], remaining)
                        ELSE reschedule(s0)
                   ELSE reschedule(s0)
              ELSE s0
    IN [rts |-> Put(st.rts, s1.rs), tms |-> s1.tms]

RECURSIVE LoadFrom(_, _, _)
LoadFrom(st, list, i) ==
    IF i > Len(list) THEN st ELSE LoadFrom(LoadOne(st, list[i]), list, i + 1)

\* the timers left after the timer of every registered routine is cancelled; they were
\* armed before this load
CancelAll(rts, tms) ==
    {[t EXCEPT !.stale = TRUE] : t \in {u \in tms : \A i \in 1..Len(rts) : rts[i].timer # u.tid}}

\* the scheduler after configure_all(routines_list): [rts, tms]
Loaded(rts, tms, routines_list) ==
    LoadFrom([rts |-> <<>>, tms |-> CancelAll(rts, tms)], routines_list, 1)

\* how many of the threads rns are in the set S
RECURSIVE Copies(_, _)
Copies(rns, S) ==
    IF S = {} THEN 0
    ELSE LET r == CHOOSE x \in S : TRUE IN CopiesIn(r, rns) + Copies(rns, S \ {r})

\* a timer thread that has not reached the lock yet
Waiting(r) == r.pc = "start" /\ r.src = "timer"

\* a waiting timer thread belongs to a timer armed before this load
Overtaken(rns) ==
    LET F(r) == IF Waiting(r) THEN [r EXCEPT !.stale = TRUE] ELSE r
    IN [x \in {F(r) : r \in BagToSet(rns)} |->
           Copies(rns, {r \in BagToSet(rns) : F(r) = x})]

configure_all(routines_list) ==
    /\ lock = 0
    /\ LET st == Loaded(routines, timers, routines_list)
       IN /\ routines' = st.rts
          /\ timers' = st.tms
    /\ runs' = Overtaken(runs)
    /\ ops' = ops + 1
    /\ lastOp' = Op("configure_all", NoId, NoWs, NoKw, TRUE, NoRoutine, "", FALSE, "")
                      @@ [loaded |-> routines_list]
    /\ UNCHANGED <<lock, now>>

\* ------------------------------------------------------------- Init
\* the scheduler once the application has started: app.py creates it empty and hands
\* configure_all the routines of every workspace's settings
InitOver(lists) ==
    /\ now = 0
    /\ \E l \in lists :
          LET st == Loaded(<<>>, {}, l)
          IN /\ routines = st.rts
             /\ timers = st.tms
    /\ lock = 0
    /\ runs = EmptyBag
    /\ ops = 0
    /\ lastOp = Op("init", NoId, NoWs, NoKw, FALSE, NoRoutine, "", FALSE, "")

\* --------------------------------------------------- configure_routine
\* configure_routine with `or "interval_minutes" in kwargs` left out of line 124: a new
\* interval resumes the countdown in progress
ConfiguredResume(st, kw) ==
    LET rs1 == IF kw.has_interval
               THEN [st.rs EXCEPT !.interval_minutes = Max(1, kw.interval_minutes)]
               ELSE st.rs
        enabled_changed == kw.has_enabled /\ kw.enabled # rs1.enabled
        rs2 == IF kw.has_enabled THEN [rs1 EXCEPT !.enabled = kw.enabled] ELSE rs1
        s3 == IF rs2.timer # NoTimer
              THEN [st EXCEPT !.rs = [rs2 EXCEPT !.timer = NoTimer],
                              !.tms = Cancel(st.tms, rs2.timer)]
              ELSE [st EXCEPT !.rs = rs2]
        remaining == s3.rs.next_ping_at - now
    IN IF s3.rs.enabled
       THEN IF enabled_changed
            THEN reschedule(s3)
            ELSE IF s3.rs.next_ping_at # None
                 THEN IF remaining > 0 THEN schedule(s3, remaining) ELSE reschedule(s3)
                 ELSE reschedule(s3)
       ELSE [s3 EXCEPT !.rs.next_ping_at = None]

\* the body of configure_routine once rs is found; st is [rs, tms]
Configured(st, kw) ==
    LET rs1 == IF kw.has_interval
               THEN [st.rs EXCEPT !.interval_minutes = Max(1, kw.interval_minutes)]
               ELSE st.rs
        enabled_changed == kw.has_enabled /\ kw.enabled # rs1.enabled
        rs2 == IF kw.has_enabled THEN [rs1 EXCEPT !.enabled = kw.enabled] ELSE rs1
        s3 == IF rs2.timer # NoTimer
              THEN [st EXCEPT !.rs = [rs2 EXCEPT !.timer = NoTimer],
                              !.tms = Cancel(st.tms, rs2.timer)]
              ELSE [st EXCEPT !.rs = rs2]
        remaining == s3.rs.next_ping_at - now
    IN IF s3.rs.enabled
       THEN IF enabled_changed \/ kw.has_interval
            THEN reschedule(s3)
            ELSE IF s3.rs.next_ping_at # None
                 THEN IF remaining > 0 THEN schedule(s3, remaining) ELSE reschedule(s3)
                 ELSE reschedule(s3)
       ELSE [s3 EXCEPT !.rs.next_ping_at = None]

\* rs is disabled while the thread of its expired timer waits for the lock
Disabled(rns, rs) ==
    LET F(r) == IF Waiting(r) /\ composite_key(r.workspace, r.id) = KeyOf(rs)
                THEN [r EXCEPT !.late = TRUE] ELSE r
    IN [x \in {F(r) : r \in BagToSet(rns)} |->
           Copies(rns, {r \in BagToSet(rns) : F(r) = x})]

configure_routine(routine_id, workspace, kw) ==
    /\ lock = 0
    /\ LET i == find(routines, routine_id, workspace) IN
       /\ IF i = 0
          THEN UNCHANGED <<routines, timers, runs>>
          ELSE LET st == Configured([rs |-> routines[i], tms |-> timers], kw)
               IN /\ routines' = [routines EXCEPT ![i] = st.rs]
                  /\ timers' = st.tms
                  /\ runs' = IF kw.has_enabled /\ ~kw.enabled
                             THEN Disabled(runs, routines[i]) ELSE runs
       /\ lastOp' = Op("configure", routine_id, workspace, kw, i # 0, At(routines, i), "", FALSE, "")
    /\ ops' = ops + 1
    /\ UNCHANGED <<lock, now>>

\* --------------------------------------------------------- add_routine
Added(st, d) ==
    LET rs0 == RoutineState(d.id, d.enabled, Max(1, d.interval_minutes),
                            IF d.workspace = NoWs THEN DefaultWorkspace ELSE d.workspace)
        s0 == [rs |-> rs0, tms |-> st.tms]
        s1 == IF rs0.enabled THEN reschedule(s0) ELSE s0
    IN [rts |-> Put(st.rts, s1.rs), tms |-> s1.tms]

add_routine(d) ==
    /\ lock = 0
    /\ LET st == Added([rts |-> routines, tms |-> timers], d)
           ws == IF d.workspace = NoWs THEN DefaultWorkspace ELSE d.workspace
       IN /\ routines' = st.rts
          /\ timers' = st.tms
          /\ lastOp' = Op("add", d.id, ws, NoKw, TRUE,
                          At(routines, IndexOf(routines, composite_key(ws, d.id))), "", FALSE, "")
    /\ ops' = ops + 1
    /\ UNCHANGED <<lock, runs, now>>

\* ------------------------------------------------------ remove_routine
\* remove_routine with lines 166-167 left out: the entry goes, its timer stays
remove_routine_keeps_timer(routine_id, workspace) ==
    /\ lock = 0
    /\ LET i == find(routines, routine_id, workspace) IN
       /\ IF i = 0
          THEN UNCHANGED <<routines, timers>>
          ELSE /\ routines' = Del(routines, i)
               /\ UNCHANGED timers
       /\ lastOp' = Op("remove", routine_id, workspace, NoKw, i # 0, At(routines, i), "", FALSE, "")
    /\ ops' = ops + 1
    /\ UNCHANGED <<lock, runs, now>>

remove_routine(routine_id, workspace) ==
    /\ lock = 0
    /\ LET i == find(routines, routine_id, workspace) IN
       /\ IF i = 0
          THEN UNCHANGED <<routines, timers>>
          ELSE /\ routines' = Del(routines, i)
               /\ timers' = Cancel(timers, routines[i].timer)
       /\ lastOp' = Op("remove", routine_id, workspace, NoKw, i # 0, At(routines, i), "", FALSE, "")
    /\ ops' = ops + 1
    /\ UNCHANGED <<lock, runs, now>>

\* --------------------------------------------------------- get_routine
get_routine(routine_id, workspace) ==
    /\ lock = 0
    /\ LET i == find(routines, routine_id, workspace) IN
       lastOp' = Op("get", routine_id, workspace, NoKw, i # 0, At(routines, i), "", FALSE, "")
    /\ UNCHANGED <<routines, timers, lock, runs, now, ops>>

\* ------------------------------------------------------------ threads
CanStart == BagCardinality(runs) < MaxRuns

\* the bag with thread r replaced by what it has become
Become(rns, r, q) == (rns (-) SetToBag({r})) (+) SetToBag({q})
End(rns, r) == rns (-) SetToBag({r})

\* a new thread whose target is _run(routine_id, workspace)
Started(routine_id, workspace, src, stale) ==
    [pc |-> "start", id |-> routine_id, workspace |-> workspace, ws |-> NoWs,
     src |-> src, ok |-> FALSE, stale |-> stale, late |-> FALSE]

\* ------------------------------------------------------------ fire_now
fire_now(routine_id, workspace) ==
    /\ lock = 0
    /\ LET i == IF routine_id = NoId
                THEN (IF Len(routines) > 0 THEN 1 ELSE 0)
                ELSE find(routines, routine_id, workspace)
       IN /\ IF i = 0
             THEN UNCHANGED runs
             ELSE /\ CanStart
                  /\ runs' = runs (+) SetToBag({Started(routines[i].id,
                                                         routines[i].workspace, "now", FALSE)})
          /\ lastOp' = Op("fire_now", routine_id, workspace, NoKw, i # 0, At(routines, i), "now", FALSE, "")
    /\ ops' = ops + 1
    /\ UNCHANGED <<routines, timers, lock, now>>

\* a step no property needs to tell apart
Quiet == Op("step", NoId, NoWs, NoKw, FALSE, NoRoutine, "", FALSE, "")

\* -------------------------------------------------------------- clock
\* a Timer's wait ends at its deadline: the clock does not pass a waiting timer by
Tick ==
    /\ now < MaxTime
    /\ \A t \in timers : t.deadline > now
    /\ now' = now + 1
    /\ lastOp' = Quiet
    /\ UNCHANGED <<routines, timers, lock, runs, ops>>

\* threading.Timer.run: the wait is over and the timer was not cancelled, so its
\* thread calls _run(id, workspace); from here on cancel() has no effect on it
TimerExpire(t) ==
    /\ now >= t.deadline
    /\ CanStart
    /\ timers' = timers \ {t}
    /\ routines' = [i \in 1..Len(routines) |->
                       IF routines[i].timer = t.tid
                       THEN [routines[i] EXCEPT !.timer = DeadTimer] ELSE routines[i]]
    /\ runs' = runs (+) SetToBag({Started(t.id, t.workspace, "timer", t.stale)})
    /\ lastOp' = Quiet
    /\ UNCHANGED <<lock, now, ops>>

\* ---------------------------------------------------------------- _run
\* _run up to the lookup: takes the lock and returns at once when the key is not registered
run_start(r) ==
    /\ r.pc = "start"
    /\ lock = 0
    /\ LET i == IndexOf(routines, composite_key(r.workspace, r.id)) IN
       IF i = 0
       THEN /\ runs' = End(runs, r)
            /\ UNCHANGED lock
       ELSE /\ runs' = Become(runs, r, [r EXCEPT !.pc = "build", !.ws = routines[i].workspace])
            /\ lock' = 1
    /\ lastOp' = Quiet
    /\ UNCHANGED <<routines, timers, now, ops>>

\* _build_prompt has run its script sources, inside the first `with self._lock`
run_build(r) ==
    /\ r.pc = "build"
    /\ lock = 1
    /\ lock' = 0
    /\ runs' = Become(runs, r, [r EXCEPT !.pc = "inject"])
    /\ lastOp' = Quiet
    /\ UNCHANGED <<routines, timers, now, ops>>

\* what a call of persistent_session.inject can do: return True, return False, or raise
\* (is_running and ensure_running call subprocess.run and load_workspace_settings
\* outside any try)
InjectOutcomes == {"true", "false", "raise"}

\* inject(prompt, workspace=ws), called without the lock; an exception ends the thread
run_inject(r, outcome) ==
    /\ r.pc = "inject"
    /\ runs' = IF outcome = "raise" THEN End(runs, r)
               ELSE Become(runs, r, [r EXCEPT !.pc = "book", !.ok = (outcome = "true")])
    /\ lastOp' = Quiet
    /\ UNCHANGED <<routines, timers, lock, now, ops>>

\* the persistence of the bookkeeping, as the durable store lets it end:
\*   "saved"      load_workspace_settings returned a list holding an entry with this id,
\*                and save_workspace_settings wrote it back
\*   "save_fails" the same, but save_workspace_settings raised ValueError or OSError
\*   "no_entry"   the loaded list (the saved one, or the defaults when the file is
\*                missing or unreadable as JSON) holds no entry with this id
\*   "load_fails" load_workspace_settings raised OSError
BookOutcomes == {"saved", "save_fails", "no_entry", "load_fails"}

\* whether the loop over the saved routines reached the entry of this routine
Matched(outcome) == outcome \in {"saved", "save_fails"}

\* the bookkeeping with `if rs.enabled` left out of line 320: a disabled routine is
\* re-armed too
RearmedDisabledToo(st, outcome) ==
    IF Matched(outcome) THEN reschedule(st) ELSE st

\* the re-arm of the bookkeeping: only inside the loop over the saved routines, at the
\* entry whose id matches
Rearmed(st, outcome) ==
    IF Matched(outcome) /\ st.rs.enabled THEN reschedule(st) ELSE st

\* the second `with self._lock` of _run; st is [rs, tms]
Booked(st, outcome) ==
    Rearmed([st EXCEPT !.rs.last_ping_at = now], outcome)

run_book(r, outcome) ==
    /\ r.pc = "book"
    /\ lock = 0
    /\ LET i == IndexOf(routines, composite_key(r.workspace, r.id)) IN
       /\ IF i = 0
          THEN UNCHANGED <<routines, timers>>
          ELSE LET st == Booked([rs |-> routines[i], tms |-> timers], outcome)
               IN /\ routines' = [routines EXCEPT ![i] = st.rs]
                  /\ timers' = st.tms
       /\ lastOp' = Op("run_book", r.id, r.workspace, NoKw, i # 0, At(routines, i), r.src,
                       r.ok, IF i = 0 THEN "" ELSE outcome)
    /\ runs' = End(runs, r)
    /\ UNCHANGED <<lock, now, ops>>

\* ------------------------------------------------- persistent_session.py
\* the workspaces whose sessions are managed
Workspaces == {"fathom", "side"}

\* the callers of the session manager
CallOps == {"ensure_running", "inject", "restart", "terminal", "bring_up"}

\* the threads that can be inside the session manager at the same time: a request
\* handler and a _run thread of the scheduler
Callers == {"request", "fire"}

\* the calls followed: every caller on the default workspace, the lifecycle calls on the
\* other one
Entries ==
    {<<op, DefaultWorkspace>> : op \in CallOps}
        \cup {<<op, "side">> : op \in {"ensure_running", "restart"}}

\* sessions[workspace] is the id of the session's pane, NoSession when tmux has no
\* session of that name
NoSession == 0

\* what _main_pane returns: a saved pane id, or SessionTarget for the session name
NoTarget == -1
\* the content of a pane-id file that write_text has opened (mode "w" truncates it) and
\* not yet written
EmptyFile == -2
SessionTarget == 0

\* tmux has-session -t <session>: return code 0
is_running(workspace) == sessions[workspace] # NoSession

\* _main_pane: the text of the pane-id file when it can be read and is not empty,
\* the session name otherwise
main_pane(workspace) ==
    IF pane_file[workspace] \notin {0, EmptyFile} THEN pane_file[workspace]
    ELSE SessionTarget

\* tmux send-keys -t <target>: return code 0, the pane or the session being there
Delivered(workspace, target) ==
    IF target = SessionTarget THEN is_running(workspace)
    ELSE \E w \in Workspaces : sessions[w] = target

\* a call in progress: pc is where it stands, holds whether it is inside with _lock,
\* found what its last existence check before a launch returned, kill how its kill-session
\* ended, created the pane of the session its new-session made (NoSession when it made
\* none), started what ensure_running returned to inject, target what _main_pane
\* returned, stale whether that target was a pane id other than the pane of the session
\* then running, sends the send-keys calls issued (for a room message: the calls of
\* _inject_message), delivered those that returned 0, queued whether
\* _inject_to_workspace answered that the message is queued, pane the pane id that
\* list-panes returned to the call for the pane-id file
Call(op, workspace, pc) ==
    [op |-> op, workspace |-> workspace, pc |-> pc, holds |-> FALSE, found |-> FALSE,
     kill |-> "none", created |-> NoSession, started |-> "none", target |-> NoTarget,
     stale |-> FALSE, sends |-> 0, delivered |-> 0, queued |-> FALSE, pane |-> NoSession,
     result |-> "none"]

NoCall == Call("none", "", "done")

\* the call c has become q
Moved(c, q) == (calls (-) SetToBag({c})) (+) SetToBag({q})

\* the call c, having become q, returns result (or raises) to its caller, leaving the
\* with block
Return(c, q, result) ==
    /\ calls' = calls (-) SetToBag({c})
    /\ ret' = [q EXCEPT !.pc = "done", !.result = result, !.holds = FALSE]

\* (a variant of Resume in which inject goes on to send whatever ensure_running returned)
ResumeAnyway(c, q, started) ==
    IF started # "raise"
    THEN /\ calls' = Moved(c, [q EXCEPT !.pc = "pane", !.holds = FALSE,
                                        !.started = started])
         /\ ret' = NoCall
    ELSE Return(c, [q EXCEPT !.started = started], started)

\* ensure_running called from inject has returned started to it
Resume(c, q, started) ==
    IF started = "true"
    THEN /\ calls' = Moved(c, [q EXCEPT !.pc = "pane", !.holds = FALSE,
                                        !.started = started])
         /\ ret' = NoCall
    ELSE Return(c, [q EXCEPT !.started = started], started)

\* ensure_running has returned: to the caller, to inject (which returns False unless it
\* is True), or to the terminal handler (which ignores the value and goes on to attach)
Ensured(c, q, result) ==
    IF c.op = "inject" THEN Resume(c, q, result)
    ELSE IF c.op = "terminal" /\ result # "raise"
    THEN /\ calls' = Moved(c, [q EXCEPT !.pc = "attach", !.holds = FALSE])
         /\ ret' = NoCall
    ELSE Return(c, q, result)

\* a request thread, a _run thread or a startup thread enters op(workspace)
enter(op, workspace) ==
    /\ ncalls < MaxCalls /\ BagCardinality(calls) < Cardinality(Callers)
    /\ ncalls' = ncalls + 1
    /\ calls' = calls (+) SetToBag(
          {Call(op, workspace,
                CASE op = "inject" -> "running"
                  [] op = "bring_up" -> "has_session"
                  [] OTHER -> "lock")})
    /\ ret' = NoCall
    /\ UNCHANGED <<sessions, next_pane, pane_file, session_lock>>

\* inject, line 156: is_running, outside the lock and outside the try
CheckOutcomes == {"ok", "raise"}
inject_running(c, outcome) ==
    /\ c.op = "inject" /\ c.pc = "running"
    /\ IF outcome = "raise" THEN Return(c, c, "raise")
       ELSE /\ calls' = Moved(c, [c EXCEPT !.found = is_running(c.workspace),
                                           !.pc = IF is_running(c.workspace)
                                                  THEN "pane" ELSE "lock"])
            /\ ret' = NoCall
    /\ UNCHANGED <<sessions, next_pane, pane_file, session_lock, ncalls>>

\* (a variant of ensure_check that does not wait for the lock)
ensure_check_unlocked(c, outcome) ==
    /\ c.op \in {"ensure_running", "inject", "terminal"} /\ c.pc = "lock"
    /\ IF outcome = "check_raises" THEN Ensured(c, c, "raise") /\ UNCHANGED session_lock
       ELSE IF is_running(c.workspace)
       THEN /\ outcome = "ok"
            /\ Ensured(c, [c EXCEPT !.found = TRUE], "true")
            /\ UNCHANGED session_lock
       ELSE IF outcome = "resolve_raises" THEN Ensured(c, c, "raise") /\ UNCHANGED session_lock
       ELSE /\ calls' = Moved(c, [c EXCEPT !.pc = "launch", !.holds = TRUE])
            /\ session_lock' = 1
            /\ ret' = NoCall
    /\ UNCHANGED <<sessions, next_pane, pane_file, ncalls>>

\* with _lock: ... of ensure_running, up to the try: the existence check, then the
\* working directory, the workspace settings and the agent, any of which can raise
ResolveOutcomes == {"ok", "check_raises", "resolve_raises"}
ensure_check(c, outcome) ==
    /\ c.op \in {"ensure_running", "inject", "terminal"} /\ c.pc = "lock"
    /\ session_lock = 0
    /\ IF outcome = "check_raises" THEN Ensured(c, c, "raise") /\ UNCHANGED session_lock
       ELSE IF is_running(c.workspace)
       THEN /\ outcome = "ok"
            /\ Ensured(c, [c EXCEPT !.found = TRUE], "true")
            /\ UNCHANGED session_lock
       ELSE IF outcome = "resolve_raises" THEN Ensured(c, c, "raise") /\ UNCHANGED session_lock
       ELSE /\ calls' = Moved(c, [c EXCEPT !.pc = "launch", !.holds = TRUE])
            /\ session_lock' = 1
            /\ ret' = NoCall
    /\ UNCHANGED <<sessions, next_pane, pane_file, ncalls>>

\* with _lock: ... of restart, lines 183-187: the working directory, then the check
restart_check(c, outcome) ==
    /\ c.op = "restart" /\ c.pc = "lock"
    /\ session_lock = 0
    /\ IF outcome # "ok" THEN Return(c, c, "raise") /\ UNCHANGED session_lock
       ELSE /\ calls' = Moved(c, [c EXCEPT !.found = is_running(c.workspace),
                                           !.holds = TRUE,
                                           !.pc = IF is_running(c.workspace)
                                                  THEN "kill" ELSE "launch"])
            /\ session_lock' = 1
            /\ ret' = NoCall
    /\ UNCHANGED <<sessions, next_pane, pane_file, ncalls>>

\* restart, lines 188-192: tmux kill-session, its return code not read, and the sleep
KillOutcomes == {"killed", "failed", "raise"}
restart_kill(c, outcome) ==
    /\ c.op = "restart" /\ c.pc = "kill"
    /\ sessions' = IF outcome = "killed"
                   THEN [sessions EXCEPT ![c.workspace] = NoSession] ELSE sessions
    /\ IF outcome = "raise"
       THEN Return(c, [c EXCEPT !.kill = outcome], "raise") /\ session_lock' = 0
       ELSE /\ calls' = Moved(c, [c EXCEPT !.pc = "launch", !.kill = outcome])
            /\ session_lock' = session_lock /\ ret' = NoCall
    /\ UNCHANGED <<next_pane, pane_file, ncalls>>

\* tmux new-session -s <session>: makes the session unless one of that name is there
Create(c) ==
    /\ next_pane <= MaxPanes
    /\ sessions' = IF is_running(c.workspace) THEN sessions
                   ELSE [sessions EXCEPT ![c.workspace] = next_pane]
    /\ next_pane' = IF is_running(c.workspace) THEN next_pane ELSE next_pane + 1

\* the try of ensure_running and of restart: Popen of tmux new-session -d, which raises,
\* or whose tmux makes the session or fails; then the settle sleep with the lock held.
\* restart loads the settings and the agent just before the try (lines 194-197)
LaunchOutcomes == {"created", "failed", "raise"}
launch(c, outcome) ==
    /\ c.op \in {"ensure_running", "inject", "terminal", "restart"} /\ c.pc = "launch"
    /\ outcome = "resolve_raises" => c.op = "restart"
    /\ IF outcome = "created"
       THEN Create(c)
       ELSE UNCHANGED <<sessions, next_pane>>
    /\ IF outcome \in {"raise", "resolve_raises"}
       THEN /\ session_lock' = 0
            /\ IF c.op = "restart"
               THEN Return(c, c, IF outcome = "raise" THEN "false" ELSE "raise")
               ELSE Ensured(c, c, "false")
       ELSE /\ calls' = Moved(c, [c EXCEPT !.pc = "recheck",
                                   !.created = IF outcome = "created"
                                                   /\ ~is_running(c.workspace)
                                                THEN next_pane ELSE NoSession])
            /\ session_lock' = session_lock /\ ret' = NoCall
    /\ UNCHANGED <<pane_file, ncalls>>

\* after the sleep: is_running again, inside the try
recheck(c, outcome) ==
    /\ c.pc = "recheck"
    /\ IF outcome = "ok" /\ is_running(c.workspace)
       THEN /\ calls' = Moved(c, [c EXCEPT !.pc = "save"])
            /\ session_lock' = session_lock /\ ret' = NoCall
       ELSE /\ session_lock' = 0
            /\ IF c.op = "restart" THEN Return(c, c, "false") ELSE Ensured(c, c, "false")
    /\ UNCHANGED <<sessions, next_pane, pane_file, ncalls>>

\* _save_pane_id, lines 72-82: tmux list-panes, and when it returned 0 with a pane the
\* file is opened by write_text, which truncates it; nothing is written when list-panes
\* returned no pane; an exception ends the try with False
SaveOutcomes == {"ok", "raise"}
save_pane_id(c, outcome) ==
    /\ c.pc = "save"
    /\ IF outcome = "ok" /\ is_running(c.workspace)
       THEN /\ pane_file' = [pane_file EXCEPT ![c.workspace] = EmptyFile]
            /\ calls' = Moved(c, [c EXCEPT !.pc = "write", !.pane = sessions[c.workspace]])
            /\ session_lock' = session_lock /\ ret' = NoCall
       ELSE /\ session_lock' = 0
            /\ LET result == IF outcome = "ok" THEN "true" ELSE "false"
               IN IF c.op = "restart" THEN Return(c, c, result) ELSE Ensured(c, c, result)
            /\ UNCHANGED pane_file
    /\ UNCHANGED <<sessions, next_pane, ncalls>>

\* _save_pane_id, line 82: write_text writes the pane id into the truncated file and
\* closes it; the caller returns True
save_write(c) ==
    /\ c.pc = "write"
    /\ pane_file' = [pane_file EXCEPT ![c.workspace] = c.pane]
    /\ session_lock' = 0
    /\ IF c.op = "restart" THEN Return(c, c, "true") ELSE Ensured(c, c, "true")
    /\ UNCHANGED <<sessions, next_pane, ncalls>>

\* inject, line 162: pane = _main_pane(workspace)
inject_pane(c) ==
    /\ c.op = "inject" /\ c.pc = "pane"
    /\ LET target == main_pane(c.workspace)
       IN calls' = Moved(c, [c EXCEPT !.pc = "send", !.target = target,
                               !.stale = /\ is_running(c.workspace)
                                         /\ target # SessionTarget
                                         /\ target # sessions[c.workspace]])
    /\ ret' = NoCall
    /\ UNCHANGED <<sessions, next_pane, pane_file, session_lock, ncalls>>

\* inject, lines 164-178: the two send-keys calls, first the literal text and then the
\* Enter key; a call that raises ends inject with False, its return code is not read
SendOutcomes == {"ran", "raise"}
inject_send(c, outcome) ==
    /\ c.op = "inject" /\ c.pc = "send"
    /\ IF outcome = "raise" THEN Return(c, [c EXCEPT !.sends = @ + 1], "false")
       ELSE LET q == [c EXCEPT !.sends = @ + 1,
                               !.delivered = IF Delivered(c.workspace, c.target)
                                             THEN @ + 1 ELSE @]
            IN IF q.sends = 2 THEN Return(c, q, "true")
               ELSE calls' = Moved(c, q) /\ ret' = NoCall
    /\ UNCHANGED <<sessions, next_pane, pane_file, session_lock, ncalls>>

\* terminal, lines 72-99: Popen of tmux new-session -A, which attaches to the session
\* or makes it; the pane-id file is not written
terminal_attach(c, outcome) ==
    /\ c.op = "terminal" /\ c.pc = "attach"
    /\ IF outcome = "created" THEN Create(c)
       ELSE UNCHANGED <<sessions, next_pane>>
    /\ Return(c, c, IF outcome = "created" THEN "true" ELSE "false")
    /\ UNCHANGED <<pane_file, session_lock, ncalls>>

\* _inject_to_workspace, lines 172-194 and 265-266: has-session, outside any lock; with a
\* session the message goes to its pane at once through _inject_message, which raises
\* when a tmux command fails, as paste-buffer does on a pane that is gone; without one the background thread is started and the
\* answer is delivered = False, queued = True
PasteOutcomes == {"pasted", "raise"}
bring_up(c, outcome) ==
    /\ c.op = "bring_up" /\ c.pc = "has_session"
    /\ IF is_running(c.workspace)
       THEN LET target == main_pane(c.workspace)
                pasted == outcome = "pasted" /\ Delivered(c.workspace, target)
            IN Return(c, [c EXCEPT !.found = TRUE, !.target = target,
                                   !.sends = IF pasted THEN 1 ELSE 0],
                      IF pasted THEN "delivered" ELSE "error")
       ELSE /\ calls' = Moved(c, [c EXCEPT !.pc = "bg_create", !.queued = TRUE])
            /\ ret' = NoCall
    /\ UNCHANGED <<sessions, next_pane, pane_file, session_lock, ncalls>>

\* bring_up_create in which tmux new-session -d is run without check=True, so that a
\* thread that finds the session made by another goes on to wait for the prompt
bring_up_create_unchecked(c, outcome) ==
    /\ c.op = "bring_up" /\ c.pc = "bg_create"
    /\ IF outcome = "created" /\ ~is_running(c.workspace)
       THEN /\ Create(c)
            /\ calls' = Moved(c, [c EXCEPT !.pc = "ready", !.created = next_pane])
            /\ ret' = NoCall
       ELSE IF outcome = "raise"
       THEN /\ Return(c, c, "dropped")
            /\ UNCHANGED <<sessions, next_pane>>
       ELSE /\ calls' = Moved(c, [c EXCEPT !.pc = "ready"])
            /\ ret' = NoCall
            /\ UNCHANGED <<sessions, next_pane>>
    /\ UNCHANGED <<pane_file, session_lock, ncalls>>

\* _bg, lines 196-218: tmux new-session -d with check=True: tmux makes the session, or
\* fails (a session of that name exists by now, or the agent cannot be started), or the
\* settings cannot be loaded; every failure raises into the except of line 262, which
\* ends the thread with the message
bring_up_create(c, outcome) ==
    /\ c.op = "bring_up" /\ c.pc = "bg_create"
    /\ IF outcome = "created" /\ ~is_running(c.workspace)
       THEN /\ Create(c)
            /\ calls' = Moved(c, [c EXCEPT !.pc = "ready", !.created = next_pane])
            /\ ret' = NoCall
       ELSE /\ Return(c, c, "dropped")
            /\ UNCHANGED <<sessions, next_pane>>
    /\ UNCHANGED <<pane_file, session_lock, ncalls>>

\* _bg, lines 219-251: the wait for the prompt marker, which a session that is gone never
\* shows; without it the thread ends with the message; with it list-panes, and the
\* pane-id file opened by write_text, which truncates it
ReadyOutcomes == {"ready", "not_ready"}
bring_up_ready(c, outcome) ==
    /\ c.op = "bring_up" /\ c.pc = "ready"
    /\ IF outcome = "ready" /\ is_running(c.workspace)
       THEN /\ pane_file' = [pane_file EXCEPT ![c.workspace] = EmptyFile]
            /\ calls' = Moved(c, [c EXCEPT !.pc = "bg_write", !.pane = sessions[c.workspace]])
            /\ ret' = NoCall
       ELSE /\ Return(c, c, "not_ready")
            /\ UNCHANGED pane_file
    /\ UNCHANGED <<sessions, next_pane, session_lock, ncalls>>

\* _bg, lines 251-263: the pane id is written, read back as the target, and the message
\* sent to it through _inject_message; a tmux command that fails on a pane that is gone
\* raises into the except of line 262
bring_up_write(c) ==
    /\ c.op = "bring_up" /\ c.pc = "bg_write"
    /\ pane_file' = [pane_file EXCEPT ![c.workspace] = c.pane]
    /\ IF Delivered(c.workspace, c.pane)
       THEN Return(c, [c EXCEPT !.target = c.pane, !.sends = 1], "injected")
       ELSE Return(c, [c EXCEPT !.target = c.pane], "not_delivered")
    /\ UNCHANGED <<sessions, next_pane, session_lock, ncalls>>

\* the agent exits, or the session is killed from outside: tmux drops the session
session_exit(workspace) ==
    /\ is_running(workspace)
    /\ sessions' = [sessions EXCEPT ![workspace] = NoSession]
    /\ ret' = NoCall
    /\ UNCHANGED <<next_pane, pane_file, session_lock, calls, ncalls>>

\* no session manager call yet: no session, no pane-id file
SessionInit ==
    /\ sessions = [w \in Workspaces |-> NoSession]
    /\ next_pane = 1
    /\ pane_file = [w \in Workspaces |-> 0]
    /\ session_lock = 0
    /\ calls = EmptyBag
    /\ ncalls = 0
    /\ ret = NoCall

SessionNext ==
    \/ \E e \in Entries : enter(e[1], e[2]) /\ UNCHANGED <<pvars, jvars, bvars, ivars, dvars>>
    \/ \E c \in BagToSet(calls), o \in CheckOutcomes : inject_running(c, o) /\ UNCHANGED <<pvars, jvars, bvars, ivars, dvars>>
    \/ \E c \in BagToSet(calls), o \in ResolveOutcomes : ensure_check(c, o) /\ UNCHANGED <<pvars, jvars, bvars, ivars, dvars>>
    \/ \E c \in BagToSet(calls), o \in CheckOutcomes : restart_check(c, o) /\ UNCHANGED <<pvars, jvars, bvars, ivars, dvars>>
    \/ \E c \in BagToSet(calls), o \in KillOutcomes : restart_kill(c, o) /\ UNCHANGED <<pvars, jvars, bvars, ivars, dvars>>
    \/ \E c \in BagToSet(calls), o \in LaunchOutcomes \cup {"resolve_raises"} : launch(c, o) /\ UNCHANGED <<pvars, jvars, bvars, ivars, dvars>>
    \/ \E c \in BagToSet(calls), o \in CheckOutcomes : recheck(c, o) /\ UNCHANGED <<pvars, jvars, bvars, ivars, dvars>>
    \/ \E c \in BagToSet(calls), o \in SaveOutcomes : save_pane_id(c, o) /\ UNCHANGED <<pvars, jvars, bvars, ivars, dvars>>
    \/ \E c \in BagToSet(calls) : save_write(c) /\ UNCHANGED <<pvars, jvars, bvars, ivars, dvars>>
    \/ \E c \in BagToSet(calls) : inject_pane(c) /\ UNCHANGED <<pvars, jvars, bvars, ivars, dvars>>
    \/ \E c \in BagToSet(calls), o \in SendOutcomes : inject_send(c, o) /\ UNCHANGED <<pvars, jvars, bvars, ivars, dvars>>
    \/ \E c \in BagToSet(calls), o \in LaunchOutcomes : terminal_attach(c, o) /\ UNCHANGED <<pvars, jvars, bvars, ivars, dvars>>
    \/ \E c \in BagToSet(calls), o \in PasteOutcomes : bring_up(c, o) /\ UNCHANGED <<pvars, jvars, bvars, ivars, dvars>>
    \/ \E c \in BagToSet(calls), o \in LaunchOutcomes : bring_up_create(c, o) /\ UNCHANGED <<pvars, jvars, bvars, ivars, dvars>>
    \/ \E c \in BagToSet(calls), o \in ReadyOutcomes : bring_up_ready(c, o) /\ UNCHANGED <<pvars, jvars, bvars, ivars, dvars>>
    \/ \E c \in BagToSet(calls) : bring_up_write(c) /\ UNCHANGED <<pvars, jvars, bvars, ivars, dvars>>
    \/ \E w \in Workspaces : session_exit(w) /\ UNCHANGED <<pvars, jvars, bvars, ivars, dvars>>

\* ------------------------------------------------------- crystallization.py
\* the job ids spawn hands out (uuid4), one job being followed
JobIds == {"job"}
\* an id that spawn never returned
UnknownJob == "unknown"

\* what the agent's text is made of: the start delimiter, the end delimiter, a word,
\* white space, a complete progress marker of one stage or of another
Tokens == {"S", "E", "t", " ", "P", "Q"}

\* the lines of the process's output: a text delta carrying one token, a line that is
\* skipped (empty, not JSON, another envelope), or a line that is JSON but no object (a
\* number, a string, a list, null), on which msg.get raises
Lines == Tokens \cup {"skip", "nonobject"}

RECURSIVE SeqsUpTo(_, _)
SeqsUpTo(S, n) ==
    IF n = 0 THEN {<<>>}
    ELSE LET shorter == SeqsUpTo(S, n - 1)
         IN shorter \cup {Append(s, x) : s \in {t \in shorter : Len(t) = n - 1}, x \in S}

Outputs == SeqsUpTo(Lines, MaxOut)
ReturnCodes == {0, 1}

\* str.find: the first index of token x in text, 0 when it is not there
Find(text, x) ==
    IF \E i \in 1..Len(text) : text[i] = x
    THEN CHOOSE i \in 1..Len(text) : text[i] = x /\ \A k \in 1..(i - 1) : text[k] # x
    ELSE 0

\* str.strip of a slice: what is left between its first and last non-blank token
Strip(text) ==
    LET inked == {i \in 1..Len(text) : text[i] # " "}
    IN IF inked = {} THEN <<>>
       ELSE SubSeq(text, CHOOSE i \in inked : \A k \in inked : i <= k,
                         CHOOSE i \in inked : \A k \in inked : i >= k)

\* _extract_crystal: the stripped text between the first start delimiter and the first
\* end delimiter, None (the empty sequence) when either is missing, the end delimiter
\* does not come after the start delimiter, or nothing but white space lies between
extract_crystal(text) ==
    LET start_idx == Find(text, "S")
        end_idx == Find(text, "E")
    IN IF start_idx = 0 \/ end_idx = 0 \/ end_idx <= start_idx THEN <<>>
       ELSE Strip(SubSeq(text, start_idx + 1, end_idx - 1))

NoError == "none"
Event(type, status, exit_code, error) ==
    [type |-> type, status |-> status, exit_code |-> exit_code, error |-> error,
     stage |-> ""]

\* the progress event of line 163, for the marker m
Progress(m) ==
    [type |-> "progress", status |-> "", exit_code |-> 0, error |-> NoError, stage |-> m]

\* (a variant of error_detail that looks at the delimiters before the exit code)
error_detail_delimiters_first(returncode, crystal, write_ok) ==
    IF crystal = <<>> THEN "No crystal text found between delimiters in agent output"
    ELSE IF returncode # 0 THEN "Process exited with code"
    ELSE IF ~write_ok THEN "Failed to write crystal to Memento"
    ELSE NoError

\* the error_detail of lines 185-191
error_detail(returncode, crystal, write_ok) ==
    IF returncode # 0 THEN "Process exited with code"
    ELSE IF crystal = <<>> THEN "No crystal text found between delimiters in agent output"
    ELSE IF ~write_ok THEN "Failed to write crystal to Memento"
    ELSE NoError

\* the status of line 184
final_status(returncode, write_ok) ==
    IF returncode = 0 /\ write_ok THEN "done" ELSE "failed"

\* spawn: the process is started and the job registered as running, its reader thread
\* at the head of the output; out and returncode are what the process will print and
\* how it will exit
spawn(job_id, out, returncode) ==
    /\ job_id \notin DOMAIN jobs
    /\ jobs' = jobs @@ (job_id :>
          [status |-> "running", events |-> <<>>, out |-> out, returncode |-> returncode,
           pc |-> "read", full_text |-> <<>>, crystal |-> <<>>, write_ok |-> FALSE,
           sink_calls |-> 0])

\* one turn of the for loop of _reader: a skipped line, or a text delta appended to
\* full_text, a progress marker in it appended to the events; on a line that is JSON but
\* no object msg.get (line 151) raises AttributeError, which ends the thread
reader_line(job_id) ==
    /\ job_id \in DOMAIN jobs
    /\ LET job == jobs[job_id]
       IN /\ job.pc = "read" /\ job.out # <<>>
          /\ LET line == Head(job.out)
             IN jobs' = [jobs EXCEPT ![job_id] =
                  IF line = "nonobject" THEN [job EXCEPT !.out = Tail(@), !.pc = "dead"]
                  ELSE
                  [job EXCEPT !.out = Tail(@),
                              !.full_text = IF line = "skip" THEN @ ELSE Append(@, line),
                              !.events = IF line \in {"P", "Q"}
                                         THEN Append(@, Progress(line))
                                         ELSE @]]

\* reader_wait handing the crystal to the sink whatever the exit code
reader_wait_any_exit_code(job_id) ==
    /\ job_id \in DOMAIN jobs
    /\ LET job == jobs[job_id]
           crystal == extract_crystal(job.full_text)
       IN /\ job.pc = "read" /\ job.out = <<>>
          /\ jobs' = [jobs EXCEPT ![job_id] =
                [job EXCEPT !.crystal = crystal,
                            !.pc = IF crystal # <<>> THEN "write" ELSE "finish"]]

\* lines 172-178: the output has ended, proc.wait(), the crystal is extracted
reader_wait(job_id) ==
    /\ job_id \in DOMAIN jobs
    /\ LET job == jobs[job_id]
           crystal == extract_crystal(job.full_text)
       IN /\ job.pc = "read" /\ job.out = <<>>
          /\ jobs' = [jobs EXCEPT ![job_id] =
                [job EXCEPT !.crystal = crystal,
                            !.pc = IF crystal # <<>> /\ job.returncode = 0
                                   THEN "write" ELSE "finish"]]

\* lines 179-182: write_crystal, which returns ok or an error, or raises while it
\* resolves the workspace, the exception ending the reader thread
WriteOutcomes == {"ok", "rejected", "raise"}
reader_write(job_id, outcome) ==
    /\ job_id \in DOMAIN jobs
    /\ LET job == jobs[job_id]
       IN /\ job.pc = "write"
          /\ jobs' = [jobs EXCEPT ![job_id] =
                [job EXCEPT !.write_ok = (outcome = "ok"),
                            !.sink_calls = @ + 1,
                            !.pc = IF outcome = "raise" THEN "dead" ELSE "finish"]]

\* reader_done putting the done event at the head of the list
reader_done_at_head(job_id) ==
    /\ job_id \in DOMAIN jobs
    /\ LET job == jobs[job_id]
           status == final_status(job.returncode, job.write_ok)
       IN /\ job.pc = "finish"
          /\ jobs' = [jobs EXCEPT ![job_id] =
                [job EXCEPT !.events = <<Event("done", status, job.returncode,
                                  error_detail(job.returncode, job.crystal, job.write_ok))>>
                                  \o @,
                            !.pc = "status"]]

\* lines 184-196: the status and the error are worked out, the done event is appended
reader_done(job_id) ==
    /\ job_id \in DOMAIN jobs
    /\ LET job == jobs[job_id]
           status == final_status(job.returncode, job.write_ok)
       IN /\ job.pc = "finish"
          /\ jobs' = [jobs EXCEPT ![job_id] =
                [job EXCEPT !.events = Append(@, Event("done", status, job.returncode,
                                  error_detail(job.returncode, job.crystal, job.write_ok))),
                            !.pc = "status"]]

\* lines 198-200: the job's status is set
reader_status(job_id) ==
    /\ job_id \in DOMAIN jobs
    /\ LET job == jobs[job_id]
       IN /\ job.pc = "status"
          /\ jobs' = [jobs EXCEPT ![job_id] =
                [job EXCEPT !.status = final_status(job.returncode, job.write_ok),
                            !.pc = "end"]]

\* no call of get_events in the last step; no stream opened
NoGot == [job_id |-> "", after |-> 0, events |-> <<>>, status |-> "", known |-> FALSE]
NoStream == [job_id |-> "", pc |-> "closed", cursor |-> 0, events |-> <<>>, status |-> "",
             yielded |-> <<>>]

\* SliceFrom losing the first event it should return
SliceFromNext(events, after) ==
    IF after + 1 >= Len(events) THEN <<>> ELSE SubSeq(events, after + 2, Len(events))

\* Python's events[after:] for after >= 0: the events from index after on, none when
\* after is the length of the list or more
SliceFrom(events, after) ==
    IF after >= Len(events) THEN <<>> ELSE SubSeq(events, after + 1, Len(events))

\* lines 219-225: get_events, under _JOBS_LOCK: (None, None) for a job id that is not
\* registered, else the events from index after on and the status
GetEvents(job_id, after) ==
    IF job_id \in DOMAIN jobs
    THEN [job_id |-> job_id, after |-> after, known |-> TRUE,
          events |-> SliceFrom(jobs[job_id].events, after),
          status |-> jobs[job_id].status]
    ELSE [job_id |-> job_id, after |-> after, known |-> FALSE,
          events |-> <<>>, status |-> ""]

\* a call of get_events by any caller
get_events(job_id, after) ==
    /\ got' = GetEvents(job_id, after)
    /\ UNCHANGED jobs

\* ------------------------------------------------------- activation.py, crystal_stream
\* what generate yields: the event as JSON in a data: message
Message(event) == [data |-> event]
\* the message of line 233
JobNotFound == Message([type |-> "error", status |-> "", exit_code |-> 0,
                        error |-> "job not found", stage |-> ""])

\* a client opens the stream of a job id it got from spawn, or of an id spawn never
\* returned: generate starts with cursor = 0 (lines 229-230)
stream_open(job_id) ==
    /\ stream.pc = "closed"
    /\ job_id \in DOMAIN jobs \/ job_id = UnknownJob
    /\ stream' = [stream EXCEPT !.job_id = job_id, !.pc = "poll", !.cursor = 0]
    /\ got' = NoGot
    /\ UNCHANGED jobs

\* stream_poll taking an id that is not registered for a job without events
stream_poll_unknown_as_empty ==
    /\ stream.pc = "poll"
    /\ got' = GetEvents(stream.job_id, stream.cursor)
    /\ stream' = IF ~got'.known
                 THEN [stream EXCEPT !.events = <<>>, !.status = "running", !.pc = "emit"]
                 ELSE [stream EXCEPT !.events = got'.events, !.status = got'.status,
                                     !.pc = "emit"]
    /\ UNCHANGED jobs

\* lines 232-235: get_events(job_id, after=cursor); for an id that is not registered the
\* error message is yielded and generate returns
stream_poll ==
    /\ stream.pc = "poll"
    /\ got' = GetEvents(stream.job_id, stream.cursor)
    /\ stream' = IF ~got'.known
                 THEN [stream EXCEPT !.yielded = Append(@, JobNotFound), !.pc = "ended"]
                 ELSE [stream EXCEPT !.events = got'.events, !.status = got'.status,
                                     !.pc = "emit"]
    /\ UNCHANGED jobs

\* stream_emit that leaves the cursor where it is
stream_emit_cursor_stays ==
    /\ stream.pc = "emit" /\ stream.events # <<>>
    /\ stream' = [stream EXCEPT !.yielded = Append(@, Message(Head(stream.events))),
                                !.events = Tail(@)]
    /\ got' = NoGot
    /\ UNCHANGED jobs

\* lines 236-238: one turn of the for loop: the event is yielded, the cursor advances
stream_emit ==
    /\ stream.pc = "emit" /\ stream.events # <<>>
    /\ stream' = [stream EXCEPT !.yielded = Append(@, Message(Head(stream.events))),
                                !.events = Tail(@),
                                !.cursor = @ + 1]
    /\ got' = NoGot
    /\ UNCHANGED jobs

\* stream_next that also returns when nothing has been emitted so far
stream_next_idle_ends ==
    /\ stream.pc = "emit" /\ stream.events = <<>>
    /\ stream' = [stream EXCEPT !.pc = IF stream.status \in {"done", "failed"}
                                          \/ stream.cursor = 0
                                       THEN "ended" ELSE "poll"]
    /\ got' = NoGot
    /\ UNCHANGED jobs

\* lines 239-241: after the batch, generate returns when the status it fetched is done or
\* failed, else it sleeps and polls again
stream_next ==
    /\ stream.pc = "emit" /\ stream.events = <<>>
    /\ stream' = [stream EXCEPT !.pc = IF stream.status \in {"done", "failed"}
                                       THEN "ended" ELSE "poll"]
    /\ got' = NoGot
    /\ UNCHANGED jobs

\* the outputs followed with a stream: progress markers, skipped lines and lines that are
\* no objects in any order, and one output that holds a crystal
StreamLines == {"P", "Q", "skip", "nonobject"}
StreamOutputs == SeqsUpTo(StreamLines, MaxOut) \cup {<<"S", "t", "E">>}

\* ------------------------------------------------ ping_scheduler.py, _build_prompt
\* how a script source's command ends: exit code 0, a non-zero exit code, still running
\* after 10 s (subprocess.run raises TimeoutExpired), or a command the shell does not
\* find (the shell exits with 127 and prints to stderr only)
ScriptOutcomes == {"success", "error", "timeout", "missing"}
\* what a command has printed to stdout when it ends: nothing, white space, a word
\* followed by a newline
Stdouts == {<<>>, <<" ">>, <<"t", " ">>}

\* a script descriptor of context_sources with how its command behaves; a command that
\* is not found prints nothing to stdout
Scripts ==
    {sc \in [enabled : BOOLEAN, label : {"a", "b"}, outcome : ScriptOutcomes,
             stdout : Stdouts] :
        sc.outcome = "missing" => sc.stdout = <<>>}

\* the static text blocks of context_sources: none, or one with content, enabled or not
Texts == {<<>>, <<[enabled |-> TRUE, content |-> <<" ", "t">>]>>,
          <<[enabled |-> FALSE, content |-> <<"t">>]>>}

\* rs.context_sources, and whether ~/.config/fathom/ping-prompt.md exists (its text is
\* one word)
Sources == [time : BOOLEAN, scripts : SeqsUpTo(Scripts, MaxScripts), texts : Texts,
            custom : BOOLEAN]

\* lines 268-281: output is "" before the try; subprocess.run without check returns
\* whatever the exit code is and output becomes the stripped stdout; an exception
\* (TimeoutExpired, a descriptor without command) is passed over and output stays ""
ScriptOutput(script) ==
    IF script.outcome = "timeout" THEN <<>> ELSE Strip(script.stdout)

\* lines 282-285: the section of a script: its label in brackets, then the output on the
\* next line when there is any
Section(script) == [kind |-> "script", label |-> script.label, body |-> ScriptOutput(script)]

\* lines 265-285: one section for each enabled script, in the order of the list
RECURSIVE Sections(_)
Sections(scripts) ==
    IF scripts = <<>> THEN <<>>
    ELSE (IF Head(scripts).enabled THEN <<Section(Head(scripts))>> ELSE <<>>)
         \o Sections(Tail(scripts))

\* lines 291-293: the enabled text blocks whose content is not blank, stripped
RECURSIVE TextParts(_)
TextParts(texts) ==
    IF texts = <<>> THEN <<>>
    ELSE (IF Head(texts).enabled /\ Strip(Head(texts).content) # <<>>
          THEN <<[kind |-> "text", label |-> "", body |-> Strip(Head(texts).content)]>>
          ELSE <<>>)
         \o TextParts(Tail(texts))

\* _build_prompt: the parts that are joined with blank lines: the header when the time
\* is asked for, the script sections, then the override file or else the text blocks
build_prompt(src) ==
    (IF src.time THEN <<[kind |-> "header", label |-> "", body |-> <<>>]>> ELSE <<>>)
    \o Sections(src.scripts)
    \o (IF src.custom THEN <<[kind |-> "custom", label |-> "", body |-> <<"t">>]>>
        ELSE TextParts(src.texts))

\* no prompt has been built
NoBuilt == [called |-> FALSE,
            src |-> [time |-> FALSE, scripts |-> <<>>, texts |-> <<>>, custom |-> FALSE],
            parts |-> <<>>]
PromptInit == built = NoBuilt

\* a routine with any context sources is about to fire
PromptInputs == built \in {[NoBuilt EXCEPT !.src = src] : src \in Sources}

\* the fire builds the prompt of the routine
prompt_built ==
    /\ ~built.called
    /\ built' = [built EXCEPT !.called = TRUE, !.parts = build_prompt(built.src)]

PromptNext == prompt_built /\ UNCHANGED <<pvars, svars, jvars, scan, extracted, ivars, dvars>>

\* no job has been spawned

JobsInit == jobs = <<>> /\ got = NoGot /\ stream = NoStream

JobsNext ==
    \/ \E j \in JobIds, out \in Outputs, rc \in ReturnCodes : spawn(j, out, rc) /\ got' = NoGot /\ UNCHANGED <<pvars, svars, stream, bvars, ivars, dvars>>
    \/ \E j \in JobIds : reader_line(j) /\ got' = NoGot /\ UNCHANGED <<pvars, svars, stream, bvars, ivars, dvars>>
    \/ \E j \in JobIds : reader_wait(j) /\ got' = NoGot /\ UNCHANGED <<pvars, svars, stream, bvars, ivars, dvars>>
    \/ \E j \in JobIds, o \in WriteOutcomes : reader_write(j, o) /\ got' = NoGot /\ UNCHANGED <<pvars, svars, stream, bvars, ivars, dvars>>
    \/ \E j \in JobIds : reader_done(j) /\ got' = NoGot /\ UNCHANGED <<pvars, svars, stream, bvars, ivars, dvars>>
    \/ \E j \in JobIds : reader_status(j) /\ got' = NoGot /\ UNCHANGED <<pvars, svars, stream, bvars, ivars, dvars>>

StreamNext ==
    \/ \E j \in JobIds, out \in StreamOutputs, rc \in ReturnCodes : spawn(j, out, rc) /\ got' = NoGot /\ UNCHANGED <<pvars, svars, stream, bvars, ivars, dvars>>
    \/ \E j \in JobIds : reader_line(j) /\ got' = NoGot /\ UNCHANGED <<pvars, svars, stream, bvars, ivars, dvars>>
    \/ \E j \in JobIds : reader_wait(j) /\ got' = NoGot /\ UNCHANGED <<pvars, svars, stream, bvars, ivars, dvars>>
    \/ \E j \in JobIds, o \in WriteOutcomes : reader_write(j, o) /\ got' = NoGot /\ UNCHANGED <<pvars, svars, stream, bvars, ivars, dvars>>
    \/ \E j \in JobIds : reader_done(j) /\ got' = NoGot /\ UNCHANGED <<pvars, svars, stream, bvars, ivars, dvars>>
    \/ \E j \in JobIds : reader_status(j) /\ got' = NoGot /\ UNCHANGED <<pvars, svars, stream, bvars, ivars, dvars>>
    \/ \E j \in JobIds \cup {UnknownJob}, after \in 0..MaxOut + 1 :
            get_events(j, after) /\ UNCHANGED <<pvars, svars, stream, bvars, ivars, dvars>>
    \/ \E j \in JobIds \cup {UnknownJob} : stream_open(j) /\ UNCHANGED <<pvars, svars, bvars, ivars, dvars>>
    \/ stream_poll /\ UNCHANGED <<pvars, svars, bvars, ivars, dvars>>
    \/ stream_emit /\ UNCHANGED <<pvars, svars, bvars, ivars, dvars>>
    \/ stream_next /\ UNCHANGED <<pvars, svars, bvars, ivars, dvars>>

\* the steps of generate, which the server runs for as long as the client is connected
StreamSteps == (stream_poll \/ stream_emit \/ stream_next) /\ UNCHANGED <<pvars, svars, bvars, ivars, dvars>>
\* ------------------------------------------------- the reader's rolling buffer
\* The agent's text in tokens: the opening of a progress marker up to the first character
\* of its stage ("{a" is {"progress":1,"stage":"a and "{b" is {"progress":2,"stage":"b),
\* the two characters "} that close a marker, a newline, and any other character.
Opens == {"{a", "{b"}
ScanTokens == Opens \cup {"}", "n", "x"}
Percent(open) == IF open = "{a" THEN 1 ELSE 2

\* where the stage of a marker stops: the first index from j on whose token [^"]+ does
\* not match (a token with a quote in it), Len(buf) + 1 when there is none
RECURSIVE StageEnd(_, _)
StageEnd(buf, j) ==
    IF j > Len(buf) \/ buf[j] \notin {"n", "x"} THEN j ELSE StageEnd(buf, j + 1)

\* _PROGRESS_RE matches at index i of buf
MatchAt(buf, i) ==
    /\ buf[i] \in Opens
    /\ StageEnd(buf, i + 1) <= Len(buf)
    /\ buf[StageEnd(buf, i + 1)] = "}"

\* _PROGRESS_RE.finditer: the starts of the matches from index i on, leftmost first, each
\* search resuming behind the match before it
RECURSIVE Matches(_, _)
Matches(buf, i) ==
    IF i > Len(buf) THEN <<>>
    ELSE IF MatchAt(buf, i) THEN <<i>> \o Matches(buf, StageEnd(buf, i + 1) + 1)
    ELSE Matches(buf, i + 1)

\* text_buf.rsplit("\n", 1)[-1]: what follows the last newline
LastLine(buf) ==
    LET nls == {i \in 1..Len(buf) : buf[i] = "n"}
    IN IF nls = {} THEN buf
       ELSE SubSeq(buf, (CHOOSE i \in nls : \A k \in nls : i >= k) + 1, Len(buf))

\* (a trimming that empties the buffer when it holds a newline and no marker)
TrimDropsAll(buf, last_end) ==
    IF last_end > 0 THEN SubSeq(buf, last_end + 1, Len(buf))
    ELSE IF \E i \in 1..Len(buf) : buf[i] = "n" THEN <<>>
    ELSE buf

\* lines 166-170: the buffer behind the last match, or its last partial line when
\* nothing matched and it holds a newline
Trim(buf, last_end) ==
    IF last_end > 0 THEN SubSeq(buf, last_end + 1, Len(buf))
    ELSE IF \E i \in 1..Len(buf) : buf[i] = "n" THEN LastLine(buf)
    ELSE buf

\* the progress event of line 163 for the match at index i of buf; `at` is the place of
\* the match in all the text fed so far, which the program does not keep (nor does it
\* keep `off`, the number of tokens trimmed away, and `held`, whether text_buf has kept
\* the opening of a marker from one chunk to the next)
ProgressEvent(buf, i, off) ==
    [type |-> "progress", progress |-> Percent(buf[i]),
     stage |-> SubSeq(buf, i, StageEnd(buf, i + 1) - 1), at |-> off + i]

NoScan == [text |-> <<>>, rest |-> <<>>, fed |-> 0, feeds |-> 0, first |-> 0,
           text_buf |-> <<>>, off |-> 0, held |-> FALSE, events |-> <<>>]
ScanInit == scan = NoScan

\* a reader is about to be fed a text
ScanInputs ==
    scan \in {[NoScan EXCEPT !.text = t, !.rest = t, !.feeds = 1] :
                 t \in SeqsUpTo(ScanTokens, MaxText)}

\* lines 140-170, one line of stdout: a text delta of the next n tokens (none when the
\* line is another kind of message) joins text_buf, every match appends its event, and
\* the buffer is trimmed
scan_chunk(n) ==
    /\ scan.feeds > 0
    /\ n <= Len(scan.rest)
    /\ LET buf == scan.text_buf \o SubSeq(scan.rest, 1, n)
           ms == Matches(buf, 1)
           last_end == IF ms = <<>> THEN 0 ELSE StageEnd(buf, ms[Len(ms)] + 1)
           kept == Trim(buf, last_end)
       IN scan' = [scan EXCEPT
                     !.rest = SubSeq(scan.rest, n + 1, Len(scan.rest)),
                     !.fed = scan.fed + n,
                     !.text_buf = kept,
                     !.off = scan.off + (Len(buf) - Len(kept)),
                     !.held = scan.held \/ \E i \in 1..Len(kept) : kept[i] \in Opens,
                     !.events = scan.events \o
                                [k \in 1..Len(ms) |-> ProgressEvent(buf, ms[k], scan.off)]]

\* the same text is fed to the reader once more
scan_again ==
    /\ scan.feeds = 1
    /\ scan.rest = <<>>
    /\ scan' = [scan EXCEPT !.rest = scan.text, !.feeds = 2, !.first = Len(scan.events)]

ScanNext ==
    \/ \E n \in 0..MaxText : scan_chunk(n) /\ UNCHANGED <<pvars, svars, jvars, built, extracted, ivars, dvars>>
    \/ scan_again /\ UNCHANGED <<pvars, svars, jvars, built, extracted, ivars, dvars>>

\* ------------------------------------------------------ _extract_crystal alone
ExtractTokens == {"S", "E", "t", " "}
NoExtract == [text |-> <<>>, called |-> FALSE, crystal |-> <<>>]
ExtractInit == extracted = NoExtract

\* a reader has joined any text of the agent
ExtractInputs ==
    extracted \in {[NoExtract EXCEPT !.text = t] : t \in SeqsUpTo(ExtractTokens, MaxText)}

\* line 176: the reader calls _extract_crystal on the text
extract_call ==
    /\ ~extracted.called
    /\ extracted' = [extracted EXCEPT !.called = TRUE,
                                      !.crystal = extract_crystal(extracted.text)]

ExtractNext == extract_call /\ UNCHANGED <<pvars, svars, jvars, built, scan, ivars, dvars>>

\* --------------------------------------------------------- BackgroundIndexer
\* (services/indexer.py) _timer is the timer the indexer refers to, NoTimer for None;
\* timers holds the started timers that were neither cancelled nor have fired; threads
\* counts the _run threads that have not yet reached their last lines; started and calls
\* count the timers started and the calls made
Intervals == {15, 30}
IndexerInit ==
    indexer = [enabled |-> FALSE, interval |-> 15, timer |-> NoTimer, timers |-> {},
               threads |-> 0, started |-> 0, calls |-> 0]

\* _cancel: the timer referred to is cancelled and forgotten
index_cancel(ix) ==
    IF ix.timer # NoTimer
    THEN [ix EXCEPT !.timers = ix.timers \ {ix.timer}, !.timer = NoTimer]
    ELSE ix

\* _schedule: a new timer is started and referred to
index_schedule(ix) ==
    [ix EXCEPT !.started = ix.started + 1,
               !.timer = ix.started + 1,
               !.timers = ix.timers \cup {ix.started + 1}]

\* configure, under the lock
index_configure(enabled, interval_minutes) ==
    /\ indexer.calls < MaxIndexCalls
    /\ indexer.started < MaxTimers
    /\ LET set == [indexer EXCEPT !.enabled = enabled, !.interval = interval_minutes,
                                  !.calls = indexer.calls + 1]
           cancelled == index_cancel(set)
       IN indexer' = IF enabled THEN index_schedule(cancelled) ELSE cancelled

\* run_now: a thread is started on _run
index_run_now ==
    /\ indexer.calls < MaxIndexCalls
    /\ indexer' = [indexer EXCEPT !.threads = indexer.threads + 1,
                                  !.calls = indexer.calls + 1]

\* a timer's wait is over: its thread calls _run
index_timer_fires(t) ==
    /\ t \in indexer.timers
    /\ indexer' = [indexer EXCEPT !.timers = indexer.timers \ {t},
                                  !.threads = indexer.threads + 1]

\* _run: having indexed the workspaces, the thread takes the lock and schedules the next
\* run if the indexer is enabled (lines 58-60); an exception of get_workspaces or
\* subprocess.run ends the thread before that
RunOutcomes == {"indexed", "raise"}
index_run_end(outcome) ==
    /\ indexer.threads > 0
    /\ indexer.enabled => indexer.started < MaxTimers
    /\ LET ended == [indexer EXCEPT !.threads = indexer.threads - 1]
       IN indexer' = IF indexer.enabled /\ outcome = "indexed"
                     THEN index_schedule(ended) ELSE ended

IndexerNext ==
    \/ \E e \in BOOLEAN, i \in Intervals : index_configure(e, i) /\ UNCHANGED <<pvars, svars, jvars, bvars, dvars>>
    \/ index_run_now /\ UNCHANGED <<pvars, svars, jvars, bvars, dvars>>
    \/ \E t \in indexer.timers : index_timer_fires(t) /\ UNCHANGED <<pvars, svars, jvars, bvars, dvars>>
    \/ \E o \in RunOutcomes : index_run_end(o) /\ UNCHANGED <<pvars, svars, jvars, bvars, dvars>>

\* ------------------------------------------- the saved copy of the routines
\* (routes/activation.py update_routine; _run, lines 308-326; settings.py) `saved` is
\* s["ping"]["routines"] of the default workspace's settings file; http is the request
\* thread of update_routine with the settings it has loaded; booking holds the settings
\* the _run thread has loaded and changed, between its load and its save
SavedOf(rts) ==
    [i \in 1..Len(rts) |->
        [id |-> rts[i].id, enabled |-> rts[i].enabled,
         interval_minutes |-> rts[i].interval_minutes,
         next_ping_at |-> rts[i].next_ping_at, last_ping_at |-> rts[i].last_ping_at]]

\* the first entry of the list s with the id, 0 when there is none
SavedIndex(s, routine_id) ==
    IF \E i \in 1..Len(s) : s[i].id = routine_id
    THEN CHOOSE i \in 1..Len(s) : s[i].id = routine_id /\ \A j \in 1..(i - 1) : s[j].id # routine_id
    ELSE 0

NoHttp == [pc |-> "idle", id |-> NoId, kw |-> NoKw, next_ping_at |-> None, s |-> <<>>]
NoBooking == <<>>
StoreInit == saved = <<>> /\ http = NoHttp /\ booking = NoBooking

\* the settings file holds what configure_all has loaded from it
StoreLoaded == saved = SavedOf(routines) /\ http = NoHttp /\ booking = NoBooking

\* update_routine, lines 98-111: the request calls configure_routine with the id alone
\* and answers 404 when it returns None; result["next_ping_at"] is kept for the save
update_configure(routine_id, kw) ==
    /\ http.pc = "idle"
    /\ configure_routine(routine_id, NoWs, kw)
    /\ LET i == find(routines, routine_id, NoWs)
       IN http' = IF i = 0 THEN http
                  ELSE [pc |-> "load", id |-> routine_id, kw |-> kw,
                        next_ping_at |-> routines'[i].next_ping_at, s |-> <<>>]
    /\ UNCHANGED <<saved, booking>>

\* update_routine, line 114: load_settings, outside the scheduler's lock
update_load ==
    /\ http.pc = "load"
    /\ http' = [http EXCEPT !.pc = "save", !.s = saved]
    /\ lastOp' = Quiet
    /\ UNCHANGED <<routines, timers, lock, runs, now, ops, saved, booking>>

\* the list s with the supplied fields and next_ping_at written to the entry of the id
UpdateSaved(s, routine_id, kw, next_ping_at) ==
    LET i == SavedIndex(s, routine_id)
    IN IF i = 0 THEN s
       ELSE [s EXCEPT ![i] = [@ EXCEPT
                !.enabled = IF kw.has_enabled THEN kw.enabled ELSE @,
                !.interval_minutes = IF kw.has_interval THEN Max(1, kw.interval_minutes) ELSE @,
                !.next_ping_at = next_ping_at]]

\* update_routine, lines 115-127: the loaded list is changed and save_settings writes it
\* over the "ping" key of the file (settings.py 357-363)
update_save ==
    /\ http.pc = "save"
    /\ saved' = UpdateSaved(http.s, http.id, http.kw, http.next_ping_at)
    /\ http' = NoHttp
    /\ lastOp' = Quiet
    /\ UNCHANGED <<routines, timers, lock, runs, now, ops, booking>>

\* _run, lines 308-322: the thread takes the lock, sets last_ping_at, loads the
\* workspace's settings, re-arms the routine if it is enabled and writes last_ping_at
\* and, if enabled, next_ping_at to the loaded entry
book_load(r) ==
    /\ r.pc = "book"
    /\ lock = 0
    /\ LET i == IndexOf(routines, composite_key(r.workspace, r.id))
           k == SavedIndex(saved, r.id)
           outcome == IF k = 0 THEN "no_entry" ELSE "saved"
       IN /\ IF i = 0
             THEN /\ runs' = End(runs, r)
                  /\ UNCHANGED <<routines, timers, lock, booking>>
             ELSE LET st == Booked([rs |-> routines[i], tms |-> timers], outcome)
                  IN /\ routines' = [routines EXCEPT ![i] = st.rs]
                     /\ timers' = st.tms
                     /\ runs' = Become(runs, r, [r EXCEPT !.pc = "save"])
                     /\ lock' = 1
                     /\ booking' = <<IF k = 0 THEN saved
                                     ELSE [saved EXCEPT ![k] = [@ EXCEPT
                                             !.last_ping_at = now,
                                             !.next_ping_at = IF st.rs.enabled
                                                              THEN st.rs.next_ping_at
                                                              ELSE @]]>>
          /\ lastOp' = Op("run_book", r.id, r.workspace, NoKw, i # 0, At(routines, i), r.src,
                          r.ok, IF i = 0 THEN "" ELSE outcome)
    /\ UNCHANGED <<now, ops, saved, http>>

\* _run, line 323: save_workspace_settings writes the loaded settings back, and the
\* thread leaves the lock
book_save(r) ==
    /\ r.pc = "save"
    /\ lock = 1
    /\ booking # NoBooking
    /\ saved' = booking[1]
    /\ booking' = NoBooking
    /\ lock' = 0
    /\ runs' = End(runs, r)
    /\ lastOp' = Quiet
    /\ UNCHANGED <<routines, timers, now, ops, http>>

StoreNext ==
    \/ ops < MaxOpsOne /\ \E kw \in KwInputs : update_configure("default", kw) /\ UNCHANGED <<svars, jvars, bvars, ivars>>
    \/ update_load /\ UNCHANGED <<svars, jvars, bvars, ivars>>
    \/ update_save /\ UNCHANGED <<svars, jvars, bvars, ivars>>
    \/ Tick /\ UNCHANGED <<svars, jvars, bvars, ivars, dvars>>
    \/ \E t \in timers : TimerExpire(t) /\ UNCHANGED <<svars, jvars, bvars, ivars, dvars>>
    \/ \E r \in BagToSet(runs) : run_start(r) /\ UNCHANGED <<svars, jvars, bvars, ivars, dvars>>
    \/ \E r \in BagToSet(runs) : run_build(r) /\ UNCHANGED <<svars, jvars, bvars, ivars, dvars>>
    \/ \E r \in BagToSet(runs), o \in InjectOutcomes : run_inject(r, o) /\ UNCHANGED <<svars, jvars, bvars, ivars, dvars>>
    \/ \E r \in BagToSet(runs) : book_load(r) /\ UNCHANGED <<svars, jvars, bvars, ivars>>
    \/ \E r \in BagToSet(runs) : book_save(r) /\ UNCHANGED <<svars, jvars, bvars, ivars>>

\* ---------------------------------------------------------------- Next
\* whether the scheduler holds a routine under the key add_routine(d) will use
Registered(d) ==
    IndexOf(routines, composite_key(IF d.workspace = NoWs THEN DefaultWorkspace
                                    ELSE d.workspace, d.id)) # 0

\* the scheduler with its callers drawing their arguments from `targets` and making at
\* most `cap` calls that can change it; with `fresh`, add_routine is handed only ids new
\* to the scheduler, as create_routine does (new_routine_id)
NextOver(targets, cap, fresh) ==
    \/ ops < cap /\ \E l \in LoadListsOf(targets) : configure_all(l) /\ UNCHANGED <<svars, jvars, bvars, ivars, dvars>>
    \/ ops < cap /\ \E p \in LookupsOf(targets), kw \in KwInputs : configure_routine(p[2], p[1], kw) /\ UNCHANGED <<svars, jvars, bvars, ivars, dvars>>
    \/ ops < cap /\ \E d \in AddDictsOf(targets) : (fresh => ~Registered(d)) /\ add_routine(d) /\ UNCHANGED <<svars, jvars, bvars, ivars, dvars>>
    \/ ops < cap /\ \E p \in LookupsOf(targets) : remove_routine(p[2], p[1]) /\ UNCHANGED <<svars, jvars, bvars, ivars, dvars>>
    \/ \E p \in LookupsOf(targets) : get_routine(p[2], p[1]) /\ UNCHANGED <<svars, jvars, bvars, ivars, dvars>>
    \/ ops < cap /\ \E p \in LookupsOf(targets) \cup {<<NoWs, NoId>>} : fire_now(p[2], p[1]) /\ UNCHANGED <<svars, jvars, bvars, ivars, dvars>>
    \/ Tick /\ UNCHANGED <<svars, jvars, bvars, ivars, dvars>>
    \/ \E t \in timers : TimerExpire(t) /\ UNCHANGED <<svars, jvars, bvars, ivars, dvars>>
    \/ \E r \in BagToSet(runs) : run_start(r) /\ UNCHANGED <<svars, jvars, bvars, ivars, dvars>>
    \/ \E r \in BagToSet(runs) : run_build(r) /\ UNCHANGED <<svars, jvars, bvars, ivars, dvars>>
    \/ \E r \in BagToSet(runs), o \in InjectOutcomes : run_inject(r, o) /\ UNCHANGED <<svars, jvars, bvars, ivars, dvars>>
    \/ \E r \in BagToSet(runs), o \in BookOutcomes : run_book(r, o) /\ UNCHANGED <<svars, jvars, bvars, ivars, dvars>>

\* every workspace and routine of the input domains
Init == InitOver(LoadListsOf(Targets)) /\ SessionInit /\ JobsInit /\ PromptInit /\ ScanInit /\ ExtractInit /\ IndexerInit /\ StoreInit
Next == NextOver(Targets, MaxOps, FALSE)
Spec == Init /\ [][Next]_vars

\* one routine, ("fathom", "default"), created once, and more calls
InitOne == InitOver(LoadListsOf(TargetsOne)) /\ SessionInit /\ JobsInit /\ PromptInit /\ ScanInit /\ ExtractInit /\ IndexerInit /\ StoreInit
NextOne == NextOver(TargetsOne, MaxOpsOne, TRUE)
SpecOne == InitOne /\ [][NextOne]_vars

\* the session manager on its own, the scheduler holding no routine
InitSession == InitOver({<<>>}) /\ SessionInit /\ JobsInit /\ PromptInit /\ ScanInit /\ ExtractInit /\ IndexerInit /\ StoreInit
SpecSession == InitSession /\ [][SessionNext]_vars

\* the job runner on its own
InitStream == InitOver({<<>>}) /\ SessionInit /\ JobsInit /\ PromptInit /\ ScanInit /\ ExtractInit /\ IndexerInit /\ StoreInit
SpecStream == InitStream /\ [][StreamNext]_vars
SpecStreamFair == InitStream /\ [][StreamNext]_vars /\ WF_vars(StreamSteps)

InitPrompt == InitOver({<<>>}) /\ SessionInit /\ JobsInit /\ PromptInputs /\ ScanInit /\ ExtractInit /\ IndexerInit /\ StoreInit
SpecPrompt == InitPrompt /\ [][PromptNext]_vars

InitJobs == InitOver({<<>>}) /\ SessionInit /\ JobsInit /\ PromptInit /\ ScanInit /\ ExtractInit /\ IndexerInit /\ StoreInit
SpecJobs == InitJobs /\ [][JobsNext]_vars

\* a reader fed any text in any chunks
InitScan == InitOver({<<>>}) /\ SessionInit /\ JobsInit /\ PromptInit /\ ScanInputs /\ ExtractInit /\ IndexerInit /\ StoreInit
SpecScan == InitScan /\ [][ScanNext]_vars

\* _extract_crystal called on any text
InitExtract == InitOver({<<>>}) /\ SessionInit /\ JobsInit /\ PromptInit /\ ScanInit /\ ExtractInputs /\ IndexerInit /\ StoreInit
SpecExtract == InitExtract /\ [][ExtractNext]_vars

\* the indexer with its callers and timers
InitIndexer == InitOver({<<>>}) /\ SessionInit /\ JobsInit /\ PromptInit /\ ScanInit /\ ExtractInit /\ IndexerInit /\ StoreInit
SpecIndexer == InitIndexer /\ [][IndexerNext]_vars

\* one routine, its saved copy, updates by HTTP and fires
InitStore == InitOver(LoadListsOf(TargetsOne)) /\ SessionInit /\ JobsInit /\ PromptInit /\ ScanInit /\ ExtractInit /\ IndexerInit /\ StoreLoaded
SpecStore == InitStore /\ [][StoreNext]_vars

\* ---------------------------------------------------------- properties
\* the routine the last step worked on, as it is now (NoRoutine once it is removed)
Cur == At(routines, IndexOf(routines, KeyOf(lastOp.pre)))

\* rs.timer is a Timer still waiting, due at d
ArmedAt(rs, d) == \E t \in timers : t.tid = rs.timer /\ t.deadline = d

\* rs.timer is a Timer that was started and has neither fired nor been cancelled
Armed(rs) == rs.timer # NoTimer /\ rs.timer # DeadTimer

\* the waiting timers that will call _run with the key of rs
TimersOf(rs) == {t \in timers : composite_key(t.workspace, t.id) = KeyOf(rs)}

\* the _run threads that will act, or act, on the key of rs
RunsOf(rs) == {r \in BagToSet(runs) : composite_key(r.workspace, r.id) = KeyOf(rs)}

\* a fire in progress: _run has found its routine and has not finished its bookkeeping
InProgress(r) == r.pc \in {"build", "inject", "book"}

\* C1: when the timer of a routine fires and inject returns False, the scheduler still sets
\* last_ping_at and, if the routine is enabled, re-arms its timer for exactly one interval
\* later
C1_FailedInjectionRearms ==
    (lastOp.op = "run_book" /\ lastOp.src = "timer" /\ lastOp.found /\ ~lastOp.ok) =>
        /\ Cur.last_ping_at = now
        /\ Cur.enabled => /\ Cur.next_ping_at = now + Cur.interval_minutes
                          /\ ArmedAt(Cur, now + Cur.interval_minutes)

\* C2: however the persistence of the bookkeeping ends (load fails, no entry with the
\* routine's id, save fails), an enabled routine leaves the fire of its timer with a timer
\* armed for one interval later
C2_PersistenceFailureKeepsLoop ==
    (lastOp.op = "run_book" /\ lastOp.src = "timer" /\ lastOp.found /\ Cur.enabled) =>
        ArmedAt(Cur, now + Cur.interval_minutes)

\* C3 as stated: after the fire started by fire_now has done its bookkeeping on an enabled
\* routine with an armed timer, that timer and next_ping_at are what they were
C3_FireNowKeepsTimer ==
    (lastOp.op = "run_book" /\ lastOp.src = "now" /\ lastOp.found
        /\ lastOp.pre.enabled /\ Armed(lastOp.pre)) =>
        /\ Cur.next_ping_at = lastOp.pre.next_ping_at
        /\ Cur.timer = lastOp.pre.timer
        /\ ArmedAt(Cur, lastOp.pre.next_ping_at)

\* C3, amended: the call of fire_now starts one thread running _run(id, workspace) and
\* changes no routine and no timer; the bookkeeping of that fire, when the routine is
\* enabled and the saved routines hold an entry with its id, cancels the routine's timer
\* and arms one new timer with next_ping_at = now + interval_minutes; otherwise it leaves
\* timer and next_ping_at as they were
C3_FireNowThenRearm ==
    [][ /\ lastOp'.op = "fire_now" =>
            /\ routines' = routines
            /\ timers' = timers
            /\ runs' = IF lastOp'.found
                       THEN runs (+) SetToBag({[pc |-> "start", id |-> lastOp'.pre.id,
                                                workspace |-> lastOp'.pre.workspace,
                                                ws |-> NoWs, src |-> "now", ok |-> FALSE,
                                                stale |-> FALSE, late |-> FALSE]})
                       ELSE runs
        /\ (lastOp'.op = "run_book" /\ lastOp'.src = "now" /\ lastOp'.found) =>
            LET pre == lastOp'.pre
                c == Cur'
                d == now + pre.interval_minutes
            IN IF pre.enabled /\ lastOp'.outcome \in {"saved", "save_fails"}
               THEN /\ c.next_ping_at = d
                    /\ \E t \in timers' :
                          /\ t.tid = c.timer
                          /\ t.deadline = d
                          /\ timers' \ {t} = {u \in timers : u.tid # pre.timer}
               ELSE /\ c.next_ping_at = pre.next_ping_at
                    /\ c.timer = pre.timer
                    /\ timers' = timers
      ]_vars

\* the fire started by fire_now has re-armed an enabled routine whose timer was waiting, and
\* next_ping_at is no longer what it was
C3_Witness ==
    /\ lastOp.op = "run_book" /\ lastOp.src = "now" /\ lastOp.found
    /\ lastOp.pre.enabled /\ Armed(lastOp.pre)
    /\ lastOp.outcome \in {"saved", "save_fails"}
    /\ Cur.next_ping_at # lastOp.pre.next_ping_at

\* C4: with timer expiry, fire_now and configure interleaved (no configure_all overtaking
\* the fire), no two fires of one (workspace, id) are in progress at the same time, and
\* while a timer-driven fire is in progress no timer for its next fire is armed
C4_FiresSequential ==
    \A r \in BagToSet(runs) :
        (InProgress(r) /\ ~r.stale) =>
            /\ Copies(runs, {q \in BagToSet(runs) :
                                /\ InProgress(q)
                                /\ q.id = r.id /\ q.workspace = r.workspace}) = 1
            /\ r.src = "timer" =>
                  \A t \in timers : ~(t.id = r.id /\ t.workspace = r.workspace)

\* C5: while a fire of one routine builds its prompt (runs its script sources), the thread
\* of a fire of a different routine can go on to build its own
C5_OtherRoutineNotBlocked ==
    \A a, b \in BagToSet(runs) :
        (/\ a.pc = "build"
         /\ b.pc = "start"
         /\ composite_key(a.workspace, a.id) # composite_key(b.workspace, b.id)) =>
            ENABLED run_start(b)

\* C6: once configure(enabled=False) has returned the routine has no timer and no
\* next_ping_at, and no thread of a timer of that routine goes on to fire while the routine
\* stays disabled
C6_DisableStopsTimerFires ==
    /\ (lastOp.op = "configure" /\ lastOp.found /\ lastOp.kw.has_enabled
           /\ ~lastOp.kw.enabled) =>
          /\ Cur.timer = NoTimer
          /\ Cur.next_ping_at = None
    /\ \A r \in BagToSet(runs) :
          (r.late /\ InProgress(r)) =>
              \A i \in 1..Len(routines) :
                  KeyOf(routines[i]) = composite_key(r.workspace, r.id) => routines[i].enabled

\* C7: a routine with no fire of its own pending or in progress has exactly one armed timer
\* and a next_ping_at when enabled, and neither when disabled
C7_TimerMatchesConfiguration ==
    \A i \in 1..Len(routines) :
        RunsOf(routines[i]) = {} =>
            IF routines[i].enabled
            THEN Cardinality(TimersOf(routines[i])) = 1 /\ routines[i].next_ping_at # None
            ELSE TimersOf(routines[i]) = {} /\ routines[i].next_ping_at = None

\* C8: a configure that supplies an interval, or switches enabled from False to True, and
\* leaves the routine enabled cancels the routine's timer and arms one new timer with
\* next_ping_at = now + the full interval now in force
C8_ConfigureFullInterval ==
    [][ (/\ lastOp'.op = "configure"
         /\ lastOp'.found
         /\ Cur'.enabled
         /\ (lastOp'.kw.has_interval \/ ~lastOp'.pre.enabled)) =>
            LET pre == lastOp'.pre
                c == Cur'
                interval == IF lastOp'.kw.has_interval
                            THEN Max(1, lastOp'.kw.interval_minutes)
                            ELSE pre.interval_minutes
            IN /\ c.interval_minutes = interval
               /\ c.next_ping_at = now + interval
               /\ \E t \in timers' :
                     /\ t.tid = c.timer
                     /\ t.deadline = now + interval
                     /\ timers' \ {t} = {u \in timers : u.tid # pre.timer}
      ]_vars

\* configure has supplied an interval to an enabled routine whose countdown had less than
\* that interval left
C8_Witness ==
    /\ lastOp.op = "configure" /\ lastOp.found /\ lastOp.kw.has_interval
    /\ lastOp.pre.enabled /\ Armed(lastOp.pre)
    /\ Cur.enabled
    /\ lastOp.pre.next_ping_at - now < Cur.interval_minutes

\* C9: get, configure, remove and fire_now called with (workspace, id), and the fire of a
\* timer of (workspace, id), reach the routine of that workspace and id and no other
C9_CompositeIdentity ==
    (/\ lastOp.op \in {"get", "configure", "remove", "fire_now", "run_book"}
     /\ lastOp.ws # NoWs
     /\ lastOp.found) =>
        /\ lastOp.pre.workspace = lastOp.ws
        /\ lastOp.pre.id = lastOp.id

\* C10: no timer armed before the last configure_all is still waiting, and none causes a
\* fire after it
C10_LoadCancelsEarlierTimers ==
    /\ \A t \in timers : ~t.stale
    /\ \A r \in BagToSet(runs) : InProgress(r) => ~r.stale

\* the waiting timers armed by the last configure_all for the routine (workspace, id)
LoadedTimers(workspace, id) ==
    {t \in timers : ~t.stale /\ t.id = id /\ t.workspace = workspace}

\* C11: configure_all fires nothing at load time: an enabled routine whose saved
\* next_ping_at is not in the future gets one timer armed for now + one full interval, an
\* enabled routine with a future next_ping_at keeps it and gets one timer armed for the
\* remaining time, and a disabled routine gets no timer
C11_LoadNeverBursts ==
    lastOp.op = "configure_all" =>
        \A i \in 1..Len(lastOp.loaded) :
            LET r == lastOp.loaded[i]
                ws == IF r.workspace = NoWs THEN DefaultWorkspace ELSE r.workspace
                k == IndexOf(routines, composite_key(ws, r.id))
                mine == LoadedTimers(ws, r.id)
                due == IF r.next_ping_at # None /\ r.next_ping_at > now
                       THEN r.next_ping_at
                       ELSE now + Max(1, r.interval_minutes)
                kept == k # 0 /\ routines[k].workspace = ws /\ routines[k].id = r.id
            IN IF r.enabled
               THEN /\ Cardinality(mine) = 1
                    /\ \A t \in mine : t.deadline = due /\ t.deadline > now
                    /\ kept => /\ routines[k].next_ping_at = due
                               /\ ArmedAt(routines[k], due)
               ELSE /\ mine = {}
                    /\ kept => routines[k].timer = NoTimer /\ routines[k].next_ping_at = None

\* configure_all has loaded an enabled routine whose saved next_ping_at was already past
C11_Witness ==
    /\ lastOp.op = "configure_all"
    /\ \E i \in 1..Len(lastOp.loaded) :
          /\ lastOp.loaded[i].enabled
          /\ lastOp.loaded[i].next_ping_at # None
          /\ lastOp.loaded[i].next_ping_at < now

\* C12 as stated: once remove_routine has returned True no fire of the removed key injects
\* a prompt, so when it returns no _run thread of that key has its inject call ahead
C12_NoFireAfterRemove ==
    (lastOp.op = "remove" /\ lastOp.found) =>
        \A r \in BagToSet(runs) :
            composite_key(r.workspace, r.id) = KeyOf(lastOp.pre) => r.pc # "inject"

\* C12, amended: remove_routine on a registered routine returns True, drops the entry and
\* cancels its timer, leaving every other routine and timer alone; afterwards no _run
\* thread that had not yet looked its routine up gets past the lookup (it builds no prompt
\* and injects nothing), and a fire that was already past its lookup still calls inject
\* once but its bookkeeping changes no routine and no timer
C12_RemoveDropsRoutine ==
    [][ /\ (lastOp'.op = "remove" /\ lastOp'.found) =>
            /\ IndexOf(routines', KeyOf(lastOp'.pre)) = 0
            /\ Len(routines') = Len(routines) - 1
            /\ \A i \in 1..Len(routines) :
                  KeyOf(routines[i]) # KeyOf(lastOp'.pre) =>
                      \E j \in 1..Len(routines') : routines'[j] = routines[i]
            /\ timers' = {t \in timers : t.tid # lastOp'.pre.timer}
        /\ \A r \in BagToSet(runs') :
              r.pc = "build" => IndexOf(routines', composite_key(r.workspace, r.id)) # 0
        /\ (lastOp'.op = "run_book" /\ ~lastOp'.found) =>
              routines' = routines /\ timers' = timers
      ]_vars

\* a routine has been removed while the thread of its expired timer waited for the lock
C12_Witness ==
    /\ lastOp.op = "remove" /\ lastOp.found
    /\ \E r \in BagToSet(runs) :
          /\ r.pc = "start" /\ r.src = "timer"
          /\ composite_key(r.workspace, r.id) = KeyOf(lastOp.pre)

\* C13: inject on a workspace whose session is not running calls ensure_running before it
\* sends anything, and when ensure_running returns False inject returns False having
\* issued no send-keys call
C13_InjectFailsWithoutSend ==
    /\ \A c \in BagToSet(calls) :
          (c.op = "inject" /\ c.pc \in {"pane", "send"}) => (c.found \/ c.started = "true")
    /\ (ret.op = "inject" /\ ret.sends > 0) => (ret.found \/ ret.started = "true")
    /\ (ret.op = "inject" /\ ret.started = "false") => (ret.result = "false" /\ ret.sends = 0)

C13_Witness == ret.op = "inject" /\ ret.started = "false" /\ ret.result = "false"

\* C14: inject returns True only if both send-keys calls, the literal text and the Enter
\* key, were reported as successful by tmux
C14_TrueOnlyIfBothSent ==
    (ret.op = "inject" /\ ret.result = "true") => ret.delivered = 2

\* C15: is_running, ensure_running, inject and restart never raise to the caller
C15_NeverRaises ==
    ret.op \in {"ensure_running", "inject", "restart"} => ret.result # "raise"

\* the calls inside the check-launch-settle-recheck sequence
Critical ==
    {c \in BagToSet(calls) : c.pc \in {"kill", "launch", "recheck", "save", "write"}}

\* C16: at most one caller at a time is inside the check-launch-settle-recheck sequence,
\* and it is the one holding the lock; ensure_running is about to issue new-session only
\* when its own check under the lock found no session
C16_CreationSerialized ==
    /\ \A c \in Critical : CopiesIn(c, calls) = 1 /\ c.holds /\ session_lock = 1
    /\ \A c, d \in Critical : c = d
    /\ \A c \in BagToSet(calls) : (c.pc = "launch" /\ c.op # "restart") => ~c.found

C16_Witness ==
    \E c \in Critical, d \in BagToSet(calls) :
        /\ d.pc = "lock" /\ d.workspace = c.workspace
        /\ c.op \in {"ensure_running", "inject"} /\ d.op \in {"ensure_running", "restart"}
        /\ c.pc = "recheck" /\ c.created # NoSession

\* C17: a lifecycle call waits for the lock only while a call on its own workspace holds it
C17_WorkspacesIndependent ==
    \A c, h \in BagToSet(calls) :
        (c.pc = "lock" /\ c.op \in {"ensure_running", "restart"} /\ h.holds)
            => h.workspace = c.workspace

\* C18: when inject sends, its target is not a pane id other than the pane of the session
\* that was running when the target was resolved
C18_TargetOfRunningSession ==
    \A c \in BagToSet(calls) : (c.op = "inject" /\ c.pc = "send") => ~c.stale

\* C19: restart kills a running session before it launches, and when it returns True the
\* session running is the one this call launched and the pane-id file holds its pane
C19_RestartLaunchedIt ==
    /\ \A c \in BagToSet(calls) :
          (c.op = "restart" /\ c.found /\ c.pc \in {"launch", "recheck", "save", "write"})
              => c.kill # "none"
    /\ (ret.op = "restart" /\ ret.found /\ ret.result = "true") =>
          /\ ret.created # NoSession
          /\ sessions[ret.workspace] = ret.created
          /\ pane_file[ret.workspace] = ret.created

\* the done event of a job, when it is the last of its events
DoneEvent(job) ==
    IF job.events # <<>> /\ job.events[Len(job.events)].type = "done"
    THEN job.events[Len(job.events)] ELSE Event("none", "", 0, NoError)

\* C20: a job that has its terminal status is done exactly when the process exited with
\* code 0, a crystal was found between the delimiters and the sink accepted it; its done
\* event carries that status and no error when done, and when failed the exit code if
\* it is not 0, else the missing delimiters if no crystal was found, else the sink's
\* rejection
C20_TerminalStatus ==
    \A j \in DOMAIN jobs :
        LET job == jobs[j]
            found == extract_crystal(job.full_text) # <<>>
            accepted == job.sink_calls > 0 /\ job.write_ok
            ev == DoneEvent(job)
        IN job.status # "running" =>
            /\ job.status \in {"done", "failed"}
            /\ job.status = "done" <=> (job.returncode = 0 /\ found /\ accepted)
            /\ ev.type = "done" /\ ev.status = job.status
            /\ ev.error = IF job.status = "done" THEN NoError
                          ELSE IF job.returncode # 0 THEN "Process exited with code"
                          ELSE IF ~found
                          THEN "No crystal text found between delimiters in agent output"
                          ELSE "Failed to write crystal to Memento"

C20_Witness ==
    \E j \in DOMAIN jobs :
        /\ jobs[j].status = "failed" /\ jobs[j].returncode # 0
        /\ extract_crystal(jobs[j].full_text) = <<>>

\* C21: no line of the output ends the reader thread while its job is running: a reader
\* that has ended without reaching its done event has been ended by the sink
C21_NoLineEndsReader ==
    \A j \in DOMAIN jobs :
        (jobs[j].pc = "dead" /\ jobs[j].status = "running") => jobs[j].sink_calls = 1

\* the done events among the events of a job
DoneCount(events) == Cardinality({i \in 1..Len(events) : events[i].type = "done"})

\* C22: a job's event list only grows, one event at a time at its end, and only in a step
\* of the job's reader thread; a job that has its terminal status has exactly one done
\* event, and it is the last of the list
C22_AppendOnly ==
    /\ [](\A j \in DOMAIN jobs :
            jobs[j].status # "running" =>
                /\ DoneCount(jobs[j].events) = 1
                /\ jobs[j].events[Len(jobs[j].events)].type = "done")
    /\ [][\A j \in DOMAIN jobs :
            /\ j \in DOMAIN jobs'
            /\ jobs'[j].events # jobs[j].events =>
                /\ Len(jobs'[j].events) = Len(jobs[j].events) + 1
                /\ SubSeq(jobs'[j].events, 1, Len(jobs[j].events)) = jobs[j].events
                /\ jobs[j].pc \in {"read", "finish"}
                /\ jobs'[j].pc # jobs[j].pc \/ jobs'[j].out # jobs[j].out]_vars

C22_Witness ==
    \E j \in DOMAIN jobs :
        /\ jobs[j].status # "running"
        /\ Len(jobs[j].events) = 3
        /\ jobs[j].events[1] # jobs[j].events[2]

\* C23: get_events of an id that is not registered returns (None, None); of a registered
\* job it returns the events at index >= after, in order, and the job's status of that
\* moment, so nothing when after is the number of events; the call changes no job; a job
\* is registered with status running and is never removed
C23_PureRead ==
    /\ [](got # NoGot =>
            IF got.job_id \notin DOMAIN jobs
            THEN ~got.known /\ got.events = <<>> /\ got.status = ""
            ELSE LET events == jobs[got.job_id].events
                 IN /\ got.known
                    /\ got.status = jobs[got.job_id].status
                    /\ Len(got.events) = IF got.after >= Len(events) THEN 0
                                         ELSE Len(events) - got.after
                    /\ \A i \in 1..Len(got.events) : got.events[i] = events[got.after + i]
                    /\ got.after = Len(events) => got.events = <<>>)
    /\ [][/\ got' # NoGot => jobs' = jobs
          /\ \A j \in DOMAIN jobs : j \in DOMAIN jobs'
          /\ \A j \in DOMAIN jobs' \ DOMAIN jobs :
                jobs'[j].status = "running" /\ jobs'[j].events = <<>>]_vars

C23_Witness ==
    /\ got.known /\ got.after = 1 /\ Len(got.events) = 2
    /\ got.events[1] # got.events[2]
    /\ got.status = "running"

\* the job a stream follows has its terminal status
Terminal(job_id) == job_id \in DOMAIN jobs /\ jobs[job_id].status \in {"done", "failed"}

\* C25: the stream of a registered job has yielded, at every moment, the first cursor
\* events of the job, each once and in the order of the list, whatever the reader appended
\* in between; the cursor moves by one with each yielded message and never otherwise; a
\* stream that has ended has yielded the whole list, whose last event is the done event
C25_StreamInOrder ==
    /\ [](stream.job_id \in DOMAIN jobs =>
            LET events == jobs[stream.job_id].events
            IN /\ Len(stream.yielded) = stream.cursor
               /\ stream.cursor <= Len(events)
               /\ \A i \in 1..stream.cursor : stream.yielded[i] = Message(events[i])
               /\ stream.pc = "ended" =>
                    /\ stream.cursor = Len(events)
                    /\ events[Len(events)].type = "done")
    /\ [][(stream.job_id \in DOMAIN jobs
           /\ (stream'.cursor # stream.cursor \/ stream'.yielded # stream.yielded)) =>
            /\ stream'.cursor = stream.cursor + 1
            /\ Len(stream'.yielded) = Len(stream.yielded) + 1
            /\ SubSeq(stream'.yielded, 1, Len(stream.yielded)) = stream.yielded]_vars

C25_Witness ==
    /\ stream.job_id \in DOMAIN jobs /\ stream.pc = "ended"
    /\ stream.cursor = 3
    /\ stream.yielded[1] # stream.yielded[2]

\* C26: the stream of a registered job ends only when the job has its terminal status,
\* never while the job is running, whatever the batches it fetched; and once the job has
\* its terminal status an open stream ends
C26_EndsWithJob ==
    /\ [](stream.job_id \in DOMAIN jobs /\ stream.pc = "ended" => Terminal(stream.job_id))
    /\ [][(stream.job_id \in DOMAIN jobs /\ stream.pc # "ended" /\ stream'.pc = "ended") =>
            stream.status \in {"done", "failed"} /\ Terminal(stream.job_id)]_vars
    /\ (stream.pc # "closed" /\ Terminal(stream.job_id)) ~> (stream.pc = "ended")

\* the stream has fetched an empty batch of a running job and polls again
C26_Witness ==
    /\ stream.job_id \in DOMAIN jobs
    /\ stream.pc = "poll" /\ stream.status = "running" /\ stream.cursor = 0
    /\ jobs[stream.job_id].events # <<>>

\* C27: the stream of an id that was never registered yields the job-not-found message at
\* its first poll and ends: it yields nothing else, no event of any job, and an ended
\* stream takes no further step
C27_UnknownJobEnds ==
    /\ [](stream.job_id = UnknownJob =>
            /\ stream.cursor = 0
            /\ stream.pc \in {"poll", "ended"}
            /\ stream.yielded = IF stream.pc = "ended" THEN <<JobNotFound>> ELSE <<>>)
    /\ [][stream.pc = "ended" => stream' = stream]_vars

C27_Witness ==
    /\ stream.job_id = UnknownJob /\ stream.pc = "ended"
    /\ \E j \in DOMAIN jobs : jobs[j].events # <<>>

\* C24: write_crystal is called at most once for a job, and only when the process has
\* exited (its output read to the end and waited for) with code 0 and a crystal was found
\* between the delimiters of its text
C24_SinkOnce ==
    /\ [](\A j \in DOMAIN jobs :
            /\ jobs[j].sink_calls <= 1
            /\ jobs[j].sink_calls = 1 =>
                /\ jobs[j].out = <<>>
                /\ jobs[j].returncode = 0
                /\ \E i, k \in 1..Len(jobs[j].full_text) :
                      /\ i < k
                      /\ jobs[j].full_text[i] = "S" /\ jobs[j].full_text[k] = "E"
                      /\ \E m \in i + 1..k - 1 : jobs[j].full_text[m] \notin {" "})
    /\ [][\A j \in DOMAIN jobs :
            jobs'[j].sink_calls # jobs[j].sink_calls =>
                jobs[j].pc = "write" /\ jobs'[j].sink_calls = jobs[j].sink_calls + 1]_vars

C24_Witness ==
    \E j \in DOMAIN jobs :
        jobs[j].sink_calls = 1 /\ jobs[j].status = "failed" /\ Len(jobs[j].events) = 1

\* C28: a room message that was answered as queued is not lost while its workspace gets
\* a session: the thread that brings the session up ends without sending the message
\* only when the prompt was not seen in time, or when tmux new-session failed and no
\* session of the workspace is running
C28_QueuedNotDropped ==
    (ret.op = "bring_up" /\ ret.queued /\ ret.sends = 0) =>
        (ret.result = "not_ready" \/ ~is_running(ret.workspace))

\* the enabled scripts of a list, in its order
RECURSIVE EnabledOf(_)
EnabledOf(scripts) ==
    IF scripts = <<>> THEN <<>>
    ELSE (IF Head(scripts).enabled THEN <<Head(scripts)>> ELSE <<>>)
         \o EnabledOf(Tail(scripts))

\* the script sections among the parts of a prompt, in their order
RECURSIVE ScriptParts(_)
ScriptParts(parts) ==
    IF parts = <<>> THEN <<>>
    ELSE (IF Head(parts).kind = "script" THEN <<Head(parts)>> ELSE <<>>)
         \o ScriptParts(Tail(parts))

\* C29: whatever the outcomes of the script sources, the prompt holds one section for each
\* enabled script, in the configured order, and none for a disabled one; the section has
\* the script's label, and an empty body when the script failed (non-zero exit, timeout,
\* command not found)
C29_FailingScriptEmptyBody ==
    built.called =>
        LET enabled == EnabledOf(built.src.scripts)
            sections == ScriptParts(built.parts)
        IN /\ Len(sections) = Len(enabled)
           /\ \A i \in 1..Len(enabled) :
                /\ sections[i].label = enabled[i].label
                /\ enabled[i].outcome # "success" => sections[i].body = <<>>

\* no routine of rts has the id (and, when one is given, the workspace) of a lookup
Unregistered(rts, workspace, id) ==
    \A i \in 1..Len(rts) :
        ~(rts[i].id = id /\ (workspace = NoWs \/ rts[i].workspace = workspace))

\* C30: get, configure, remove and fire_now of a (workspace, id) that no routine has find
\* nothing: they leave every routine and every timer as they were and start no fire
C30_UnregisteredUntouched ==
    [][(/\ lastOp'.op \in {"get", "configure", "remove", "fire_now"}
        /\ lastOp'.id # NoId
        /\ Unregistered(routines, lastOp'.ws, lastOp'.id)) =>
            /\ ~lastOp'.found
            /\ routines' = routines
            /\ timers' = timers
            /\ runs' = runs]_vars

\* C31: a configure_routine call whose interval_minutes is not positive is rejected: it
\* changes no routine (interval, enabled, next_ping_at, timer) and no timer, also when it
\* carries a valid enabled field
C31_MalformedRejected ==
    [][(/\ lastOp'.op = "configure"
        /\ lastOp'.kw.has_interval
        /\ lastOp'.kw.interval_minutes < 1) =>
            /\ routines' = routines
            /\ timers' = timers]_vars

\* C32: a call that resolves its target while a pane id is being persisted reads the
\* pane-id file complete, with its old or its new content: no inject reads the file of its
\* workspace while it is there without content
C32_NeverReadsEmptyFile ==
    [][\A c \in BagToSet(calls) :
          (c.op = "inject" /\ c.pc = "pane" /\ pane_file[c.workspace] = EmptyFile) =>
              CopiesIn(c, calls') >= CopiesIn(c, calls)]_vars

\* ---------------------------------------------------------------- C33
\* all the text the reader has been fed so far
Fed == SubSeq(scan.text \o scan.text, 1, scan.fed)

\* a complete progress marker without a newline in it starts at index i of text
SingleLineMarker(text, i) ==
    /\ MatchAt(text, i)
    /\ \A k \in i..StageEnd(text, i + 1) : text[k] # "n"

\* C33: however the agent's text is split into chunks, each complete single-line progress
\* marker fed to the reader so far has exactly one Progress event, which carries its
\* percent and its stage, and the events stand in the order of their markers
C33_EachMarkerOnce ==
    /\ \A i \in 1..Len(Fed) :
          SingleLineMarker(Fed, i) =>
              /\ Cardinality({k \in 1..Len(scan.events) : scan.events[k].at = i}) = 1
              /\ \A k \in 1..Len(scan.events) :
                    scan.events[k].at = i =>
                        /\ scan.events[k].progress = Percent(Fed[i])
                        /\ scan.events[k].stage = SubSeq(Fed, i, StageEnd(Fed, i + 1) - 1)
    /\ \A k, l \in 1..Len(scan.events) : k < l => scan.events[k].at < scan.events[l].at

\* a marker came in two chunks behind a line that was trimmed away, and it has its event
C33_Witness ==
    /\ scan.feeds = 1
    /\ scan.rest = <<>>
    /\ scan.text = <<"x", "n", "{a", "}">>
    /\ scan.held
    /\ Len(scan.events) = 1

\* ---------------------------------------------------------------- C34
\* C34: when the reader is fed the same text a second time, no Progress event appended
\* during the second feed has the percent and stage of an event of the first feed
C34_RefeedAppendsNothing ==
    scan.feeds = 2 =>
        \A k \in (scan.first + 1)..Len(scan.events), l \in 1..scan.first :
            ~ /\ scan.events[k].progress = scan.events[l].progress
              /\ scan.events[k].stage = scan.events[l].stage

\* ---------------------------------------------------------------- C35
\* a start delimiter at i and the next end delimiter at j of text, with no delimiter and
\* something non-blank between them
Bracketing(text, i, j) ==
    /\ i < j
    /\ text[i] = "S"
    /\ text[j] = "E"
    /\ \A k \in (i + 1)..(j - 1) : text[k] \notin {"S", "E"}
    /\ Strip(SubSeq(text, i + 1, j - 1)) # <<>>

\* C35: when the text holds a start delimiter, later an end delimiter and non-blank text
\* between them, _extract_crystal finds the crystal and it is the stripped text between
\* such a pair, whatever else the text holds; when it holds no such pair, none is found
C35_FindsAnyPair ==
    extracted.called =>
        LET text == extracted.text
            pairs == {p \in (1..Len(text)) \X (1..Len(text)) : Bracketing(text, p[1], p[2])}
        IN IF pairs = {} THEN extracted.crystal = <<>>
           ELSE \E p \in pairs :
                   extracted.crystal = Strip(SubSeq(text, p[1] + 1, p[2] - 1))

\* ---------------------------------------------------------------- C36
\* C36: after any sequence of configure_all, add, configure, remove, fire_now and timer
\* fires, no two timers wait for the same (workspace, id): an add of a registered key and
\* a load of two entries of one key leave no timer of the overwritten entry behind
C36_OneTimerPerKey ==
    \A t, u \in timers : (t.workspace = u.workspace /\ t.id = u.id) => t = u

\* ---------------------------------------------------------------- C37
\* an inject call that has sent its text to the workspace's session and not yet its Enter
MidSend(c) == c.op = "inject" /\ c.pc = "send" /\ c.sends = 1

\* C37: two inject calls into one workspace never interleave their sends: while one call
\* has sent its text and not yet its Enter, no other call has sent its text
C37_SendsNotInterleaved ==
    \A c, d \in BagToSet(calls) :
        (MidSend(c) /\ MidSend(d) /\ c.workspace = d.workspace) =>
            c = d /\ CopiesIn(c, calls) = 1

\* ---------------------------------------------------------------- C38
\* no update by HTTP and no fire is under way
StoreQuiet == http.pc = "idle" /\ runs = EmptyBag /\ booking = NoBooking

\* C38: when the HTTP updates and the fires of a workspace's routine have ended, however
\* they overlapped, the saved enabled, interval and next_ping_at of the routine are the
\* ones the scheduler holds in memory
C38_SavedMatchesMemory ==
    StoreQuiet =>
        \A i \in 1..Len(routines) :
            LET k == SavedIndex(saved, routines[i].id)
            IN k # 0 =>
                  /\ saved[k].enabled = routines[i].enabled
                  /\ saved[k].interval_minutes = routines[i].interval_minutes
                  /\ saved[k].next_ping_at = routines[i].next_ping_at

\* ---------------------------------------------------------------- C39
\* the job's events hold a done event
HasDone(events) == \E i \in 1..Len(events) : events[i].type = "done"

\* C39: in every state a job's status is done or failed exactly when its events hold the
\* done event, and then it is that event's status; no call of get_events returns the done
\* event together with the status running
C39_DoneIffStatus ==
    /\ \A j \in DOMAIN jobs :
          /\ jobs[j].status \in {"done", "failed"} <=> HasDone(jobs[j].events)
          /\ \A i \in 1..Len(jobs[j].events) :
                jobs[j].events[i].type = "done" => jobs[j].status = jobs[j].events[i].status
    /\ (got.known /\ got.status = "running") => ~HasDone(got.events)

\* ---------------------------------------------------------------- C40
\* C40: after any sequence of configure, run_now and runs started by timers, at most one
\* timer of the indexer is waiting, and none when the indexer is not enabled
C40_OneIndexerTimer ==
    /\ Cardinality(indexer.timers) <= 1
    /\ ~indexer.enabled => indexer.timers = {}

====
